---- MODULE Spec2Model ----
(***************************************************************************)
(* A model of aiorethink: the Document container with its dirty set and    *)
(* persistence operations (document.py with the descriptors of fields/),   *)
(* lazy values (values_and_valuetypes/lazy.py, reference.py) and the       *)
(* change-feed iterators (db.py).                                          *)
(*                                                                         *)
(* Python values are encoded as integers: None is 0, other field values    *)
(* are 1..MaxVal, keys generated by the store are GenBase+1..GenBase+MaxGen*)
(* and Unset stands for "no entry in the dict".  Names are strings.        *)
(***************************************************************************)
EXTENDS Integers, Sequences, FiniteSets, TLC

MaxVal == 2
GenBase == 10
MaxGen == 1

None == 0
Unset == -1

\* The values the value types are given carry their Python type: <<tag, payload>>.
PyNone == <<"none", 0>>

ALL == 0
DECLARED_ONLY == 1
UNDECLARED_ONLY == 2

Vals == 0..MaxVal
GenKeys == (GenBase + 1)..(GenBase + MaxGen)
Whichs == {ALL, DECLARED_ONLY, UNDECLARED_ONLY}

VARIABLES
    defined,    \* the Document subclasses the process has defined
    objs,       \* Document instances: object id -> instance
    copied,     \* <<c>> right after a copy() that returned c, else <<>>
    op,         \* the most recent operation and how it ended
    reqs,       \* the store requests issued by the most recent operation
    feed,       \* a change feed: the messages delivered so far, and whether it ended
    iter,       \* the ChangesAsyncMap iterating over the feed
    lz,         \* a LazyValue
    lop,        \* the most recent operation on the LazyValue and how it ended
    fc,         \* a FieldContainer instance
    cop,        \* the most recent operation on the FieldContainer and how it ended
    cache,      \* _find_methods_cache["_validate"] of each class that has one
    vop,        \* the most recent validation or conversion and how it ended
    reg,        \* the DocumentRegistry: name -> class, "" for no entry
    index,      \* _declared_fields_objects and _dbname_to_field_name of each container class
    pool,       \* the _OneConnPerThreadPool db_conn, its connections and the calls in flight
    pop,        \* the most recent call on the pool that ended, and how
    heap,       \* LazyField.Value objects by identity, and the slots that hold them
    hop         \* the most recent operation on those slots

docvars == <<defined, objs, copied, op, reqs>>

feedvars == <<feed, iter>>

lazyvars == <<lz, lop>>

contvars == <<fc, cop>>

typevars == <<cache, vop>>

classvars == <<reg, index>>

connvars == <<pool, pop>>

heapvars == <<heap, hop>>

vars == <<docvars, feedvars, lazyvars, contvars, typevars, classvars, connvars, heapvars>>

(***************************************************************************)
(* The Document classes.  Doc is a class with a db-alias field, a required *)
(* field and two container-level validators; Doc1 and Doc2 are the classes *)
(* of the reference-field tests.                                           *)
(***************************************************************************)
Names == {"id", "f1", "f2"}
UKeys == {"u", "f1"}
DbKeys == {"id", "field1", "f1", "f2", "u"}
Keys == Names \cup {"u", "field1", "pkey"}

DeclaredFields(c) ==
    CASE c = "Doc" -> {"id", "f1", "f2"}
      [] c = "Doc1" -> {"id"}
      [] c = "Doc2" -> {"id", "f1"}
      [] c = "MyDoc" -> {"f1"}
      [] OTHER -> {"id"}

dbname(c, n) == IF c = "Doc" /\ n = "f1" THEN "field1" ELSE n

required(c, n) == c = "Doc" /\ n = "f2"

primary_key(c, n) == IF c = "MyDoc" THEN n = "f1" ELSE n = "id"

IsReferenceField(c, n) == c = "Doc2" /\ n = "f1"

pkey(c) == CHOOSE n \in DeclaredFields(c) : primary_key(c, n)

\* Document._dbname_to_field_name is one dict of the Document class itself:
\* every subclass adds its entries to it.
dbname_to_field_name ==
    UNION { { <<dbname(c, n), n>> : n \in DeclaredFields(c) } : c \in defined }

has_field_attr(c, k) == k \in DeclaredFields(c)

NoLazy == [held |-> FALSE, loaded |-> FALSE, cached |-> "None", val_doc |-> None]

\* No LazyValue: create_value() without arguments.
NoValue ==
    [loaded |-> FALSE, val_cached |-> None, val_db |-> None,
     with_cached |-> FALSE, completed |-> FALSE]

LazyDone(nm, arg, out, ret, n) ==
    [name |-> nm, arg |-> arg, out |-> out, ret |-> ret, fetches |-> n]

\* FieldContainer.__init__ without arguments: no stored value, no undeclared
\* field, nothing marked.
NewContainer ==
    [ vals |-> [n \in {"f1", "f2", "f3", "f_swapcase"} |-> Unset],
      und |-> [k \in {"f1", "field1", "u"} |-> Unset],
      dirty |-> {} ]

\* No document: the argument recorded for an operation that takes none.
NoContDoc == [k \in {"field1", "f1", "f2", "f3", "f_swapcase", "u"} |-> Unset]

ContDone(nm, key, val, out, ret) ==
    [name |-> nm, key |-> key, val |-> val, doc |-> NoContDoc, out |-> out, ret |-> ret]

\* DocumentRegistry.__init__: no name is registered.
RegNames == {"Dummy", "EmptyDoc", "MyDoc", "OwnPkey"}

NoRegistry == [n \in RegNames |-> ""]

\* The container classes of the class statements, none of them executed: a
\* class that exists has its two dicts as sets of pairs.
IndexClasses == {"A", "B", "C", "S", "K"}

NoIndex == [c \in IndexClasses |-> [exists |-> FALSE, fields |-> {}, dbmap |-> {}]]

\* _OneConnPerThreadPool.__init__: no parameters, no thread has a
\* connection.  open is the connections that are open, opened the number
\* of connections made so far, pc the position of each task's call, last
\* the connection the thread's most recent get() returned since close()
\* was last called in it.
Threads == {1, 2}

Tasks == {"a1", "b1", "a2"}

thread(t) == IF t = "a2" THEN 2 ELSE 1

NewPool ==
    [ connect_kwargs |-> None,
      conn |-> [th \in Threads |-> Unset],
      open |-> {},
      opened |-> 0,
      pc |-> [t \in Tasks |-> "idle"],
      closing |-> [t \in Tasks |-> Unset],
      last |-> [th \in Threads |-> Unset] ]

NoPoolOp == [task |-> "", name |-> "", arg |-> None, out |-> "ok", ret |-> None]

\* Two Document instances and no Value object yet.
NewHeap == [ values |-> <<>>, slot |-> [c \in {"a", "b"} |-> 0], dirty |-> [c \in {"a", "b"} |-> {}] ]

NoHeapOp == [name |-> "", obj |-> "", from |-> "", arg |-> None, out |-> "ok", ret |-> None]

\* The Validatable class has no _find_methods_cache entry yet.
NoCache == [c \in {"IntValidatable"} |-> <<>>]

\* No validation has run yet.
NoValidation ==
    [name |-> "", cls |-> "", inst |-> "", val |-> PyNone, out |-> "ok", ran |-> <<>>, ret |-> PyNone]

\* A change feed that has delivered nothing yet.
NoFeed == [msgs |-> <<>>, closed |-> FALSE]

\* ChangesAsyncMap.__init__
NewIter == [at |-> "idle", consumed |-> 0, yielded |-> <<>>, as_list |-> ""]

\* Document.__init__
NewDoc(c) ==
    [ cls |-> c,
      vals |-> [n \in Names |-> Unset],
      lazy |-> NoLazy,
      und |-> [k \in UKeys |-> Unset],
      dirty |-> {},
      stored |-> FALSE,
      pend |-> "none",
      phase |-> "new",
      touched |-> {} ]

(***************************************************************************)
(* Field descriptors (fields/base.py, fields/lazy.py).                     *)
(***************************************************************************)
\* Field._get_value: the stored value, or the default (None for every field
\* of these classes).
_get_value(d, n) == IF d.vals[n] = Unset THEN None ELSE d.vals[n]

\* LazyField._get_value: a slot that holds no Value gets a fresh, unloaded one.
lazy_get_value(d) ==
    IF d.lazy.held THEN d
    ELSE [d EXCEPT !.lazy = [held |-> TRUE, loaded |-> FALSE,
                             cached |-> "None", val_doc |-> None]]

\* Document.mark_field_updated
mark_field_updated(d, name) == [d EXCEPT !.dirty = @ \cup {name}]

\* Validatable.validate on a plain Field: Validatable._validate, then
\* Field._validate (the required check).
FieldValidate(c, n, v) ==
    IF required(c, n) /\ v = None THEN "ValidationError" ELSE "ok"

\* A variant of LazyFieldValidate without ReferenceField._validate.
LazyFieldValidate_any(d) ==
    IF ~d.lazy.held THEN "AttributeError"
    ELSE IF ~d.lazy.loaded THEN "ok"
    ELSE IF d.lazy.cached = "None" THEN "AttributeError"
    ELSE "ok"

\* LazyField.validate, with ReferenceField._validate last in the chain.  A slot
\* without a Value is validated as the default, None, which has no .loaded.
LazyFieldValidate(d) ==
    IF ~d.lazy.held THEN "AttributeError"
    ELSE IF ~d.lazy.loaded THEN "ok"
    ELSE IF d.lazy.cached = "None" THEN "AttributeError"
    ELSE IF ~objs[d.lazy.cached].stored THEN "ValidationError"
    ELSE "ok"

\* Document.validate_field
validate_field(d, n) ==
    IF IsReferenceField(d.cls, n) THEN LazyFieldValidate(d)
    ELSE FieldValidate(d.cls, n, _get_value(d, n))

\* Document._validate: every dirty declared field is validated.
_validate(d) ==
    LET bad == { n \in d.dirty \cap DeclaredFields(d.cls) : validate_field(d, n) # "ok" }
    IN  IF bad = {} THEN "ok" ELSE validate_field(d, CHOOSE n \in bad : TRUE)

\* The _validate overrides of class Doc (DocIntValidator, DocEvenValidator).
ContainerValidate(d) ==
    IF d.cls # "Doc" THEN "ok"
    ELSE LET a == _get_value(d, "f1")
             b == _get_value(d, "f2")
         IN  IF a \notin 1..MaxVal \/ b \notin 1..MaxVal THEN "ValidationError"
             ELSE IF (a + b) % 2 # 0 THEN "ValidationError"
             ELSE "ok"

\* Document.validate: the _validate methods from the most general class down.
validate(d) ==
    IF _validate(d) # "ok" THEN _validate(d) ELSE ContainerValidate(d)

\* Field._do_convert_to_doc: read, validate, convert.  For a reference field
\* the db value is the primary key of the cached document, or val_doc when
\* the Value is not loaded.
_do_convert_to_doc(d, n) ==
    IF IsReferenceField(d.cls, n)
    THEN LET e == lazy_get_value(d)
             v == LazyFieldValidate(e)
         IN  IF v # "ok" THEN [out |-> v, val |-> None]
             ELSE IF e.lazy.loaded
                  THEN [out |-> "ok", val |-> _get_value(objs[e.lazy.cached], pkey(objs[e.lazy.cached].cls))]
                  ELSE [out |-> "ok", val |-> e.lazy.val_doc]
    ELSE LET v == FieldValidate(d.cls, n, _get_value(d, n))
         IN  IF v # "ok" THEN [out |-> v, val |-> None]
             ELSE [out |-> "ok", val |-> _get_value(d, n)]

(***************************************************************************)
(* The dict-like interface of Document.                                    *)
(***************************************************************************)
FieldName(d, k) == IF k = "pkey" THEN pkey(d.cls) ELSE k

\* Document.keys
keys(d, which) ==
    (IF which # UNDECLARED_ONLY THEN DeclaredFields(d.cls) ELSE {})
    \cup (IF which # DECLARED_ONLY THEN { k \in UKeys : d.und[k] # Unset } ELSE {})

\* Document.dbkeys
dbkeys(d) ==
    { dbname(d.cls, n) : n \in DeclaredFields(d.cls) }
    \cup { k \in UKeys : d.und[k] # Unset }

\* Document.__getitem__
getitem(d, k) ==
    LET n == FieldName(d, k)
    IN  IF has_field_attr(d.cls, n) THEN [out |-> "ok", val |-> _get_value(d, n)]
        ELSE IF n \in UKeys /\ d.und[n] # Unset THEN [out |-> "ok", val |-> d.und[n]]
        ELSE [out |-> "KeyError", val |-> None]

\* Document.__setitem__ for a plain value (Field.__set__ of fields/base.py
\* stores without validating).
setitem(d, k, v) ==
    LET n == FieldName(d, k)
    IN  IF has_field_attr(d.cls, n)
        THEN [out |-> "ok", d |-> mark_field_updated([d EXCEPT !.vals[n] = v], n)]
        ELSE IF (n \notin UKeys \/ d.und[n] = Unset) /\ n \in dbkeys(d)
        THEN [out |-> "AlreadyExistsError", d |-> d]
        ELSE [out |-> "ok", d |-> mark_field_updated([d EXCEPT !.und[n] = v], n)]

\* Document.__delitem__ (Field.__delete__ for a declared field).
delitem(d, k) ==
    LET n == FieldName(d, k)
    IN  IF has_field_attr(d.cls, n)
        THEN IF IsReferenceField(d.cls, n)
             THEN IF d.lazy.held
                  THEN [out |-> "ok", d |-> mark_field_updated([d EXCEPT !.lazy = NoLazy], n)]
                  ELSE [out |-> "ok", d |-> d]
             ELSE IF d.vals[n] # Unset
                  THEN [out |-> "ok", d |-> mark_field_updated([d EXCEPT !.vals[n] = Unset], n)]
                  ELSE [out |-> "ok", d |-> d]
        ELSE IF n \in UKeys /\ d.und[n] # Unset
        THEN [out |-> "ok", d |-> mark_field_updated([d EXCEPT !.und[n] = Unset], n)]
        ELSE [out |-> "KeyError", d |-> d]

\* LazyField._set_value and Field.__set__ for a reference field: tgt is the
\* assigned Document, or "None".  An existing Value is updated by Value.set,
\* which caches the new value before it converts it; converting None raises.
lazy_set_value(d, tgt) ==
    IF ~d.lazy.held
    THEN [ out |-> "ok",
           d |-> mark_field_updated(
                   [d EXCEPT !.lazy = [held |-> TRUE, loaded |-> tgt # "None",
                                       cached |-> tgt, val_doc |-> None]], "f1") ]
    ELSE IF tgt = "None"
    THEN [ out |-> "AttributeError",
           d |-> [d EXCEPT !.lazy.cached = "None", !.lazy.loaded = TRUE] ]
    ELSE [ out |-> "ok",
           d |-> mark_field_updated(
                   [d EXCEPT !.lazy = [held |-> TRUE, loaded |-> TRUE, cached |-> tgt,
                                       val_doc |-> _get_value(objs[tgt], pkey(objs[tgt].cls))]],
                   "f1") ]

(***************************************************************************)
(* Persistence (document.py).  A store request is a record; the store      *)
(* answers it or the run raises.  Operations that await the store are      *)
(* split at the await: the part before leaves the request in pend.         *)
(***************************************************************************)
NoDoc == [k \in DbKeys |-> Unset]

Request(kind, key, doc) == [kind |-> kind, key |-> key, doc |-> doc]

Raise(d, out) == [out |-> out, d |-> d, reqs |-> <<>>]

\* Document.q: the primary key's db value selects the row.
q(d) == _do_convert_to_doc(d, pkey(d.cls))

\* The fields _insert_into_db converts: all declared ones, but not a primary
\* key that reads None.
InsertFields(d) ==
    { n \in DeclaredFields(d.cls) : ~(primary_key(d.cls, n) /\ getitem(d, n).val = None) }

\* A variant of insert_dict that sends the primary key also when it is None.
insert_dict_with_pkey(d) ==
    [ k \in DbKeys |->
        IF k \in UKeys /\ d.und[k] # Unset THEN d.und[k]
        ELSE IF \E n \in DeclaredFields(d.cls) : dbname(d.cls, n) = k
        THEN _get_value(d, CHOOSE n \in DeclaredFields(d.cls) : dbname(d.cls, n) = k)
        ELSE Unset ]

\* document.py 351-360: the dict sent by an insert.
insert_dict(d) ==
    [ k \in DbKeys |->
        IF k \in UKeys /\ d.und[k] # Unset THEN d.und[k]
        ELSE IF \E n \in InsertFields(d) : dbname(d.cls, n) = k
        THEN _do_convert_to_doc(d, CHOOSE n \in InsertFields(d) : dbname(d.cls, n) = k).val
        ELSE Unset ]

\* A variant of update_dict that sends every declared field.
update_dict_all(d) ==
    [ k \in DbKeys |->
        IF \E n \in DeclaredFields(d.cls) : dbname(d.cls, n) = k
        THEN _get_value(d, CHOOSE n \in DeclaredFields(d.cls) : dbname(d.cls, n) = k)
        ELSE Unset ]

\* document.py 322-337: the dict sent by an update.  A dirty undeclared key
\* without a value is sent as None.
update_dict(d) ==
    [ k \in DbKeys |->
        IF \E n \in d.dirty : has_field_attr(d.cls, n) /\ dbname(d.cls, n) = k
        THEN _do_convert_to_doc(d, CHOOSE n \in d.dirty : has_field_attr(d.cls, n) /\ dbname(d.cls, n) = k).val
        ELSE IF k \in d.dirty /\ ~has_field_attr(d.cls, k)
        THEN IF k \in UKeys /\ d.und[k] # Unset THEN d.und[k] ELSE None
        ELSE Unset ]

\* The outcome of converting the fields ns, one after the other.
ConvertAll(d, ns) ==
    LET bad == { n \in ns : _do_convert_to_doc(d, n).out # "ok" }
    IN  IF bad = {} THEN "ok" ELSE _do_convert_to_doc(d, CHOOSE n \in bad : TRUE).out

\* Reading a reference field while converting leaves a Value in its slot.
Converted(d, ns) ==
    IF \E n \in ns : IsReferenceField(d.cls, n) THEN lazy_get_value(d) ELSE d

\* Document._insert_into_db up to the await of the store.
_insert_into_db(d) ==
    IF validate(d) # "ok" THEN Raise(d, validate(d))
    ELSE IF ConvertAll(d, InsertFields(d)) # "ok"
    THEN Raise(Converted(d, InsertFields(d)), ConvertAll(d, InsertFields(d)))
    ELSE [ out |-> "pending",
           d |-> [Converted(d, InsertFields(d)) EXCEPT !.dirty = {}, !.pend = "insert"],
           reqs |-> <<Request("insert", None, insert_dict(d))>> ]

\* A variant of insert_result that empties the dirty set when the store has
\* answered.
insert_result_clearing(d, gen) ==
    [(IF gen # Unset THEN [d EXCEPT !.vals[pkey(d.cls)] = gen] ELSE d)
        EXCEPT !.stored = TRUE, !.pend = "none", !.dirty = {}]

\* Document._insert_into_db after the store has answered: gen is the generated
\* key, or Unset when the answer carries none.
insert_result(d, gen) ==
    [ (IF gen # Unset THEN [d EXCEPT !.vals[pkey(d.cls)] = gen] ELSE d)
        EXCEPT !.stored = TRUE, !.pend = "none" ]

\* A variant of _update_in_db that empties the dirty set before it validates.
_update_in_db_clear_first(d) ==
    IF d.dirty = {} THEN [out |-> "ok", d |-> d, reqs |-> <<>>]
    ELSE IF validate(d) # "ok" THEN Raise([d EXCEPT !.dirty = {}], validate(d))
    ELSE [ out |-> "pending",
           d |-> [d EXCEPT !.dirty = {}, !.pend = "update"],
           reqs |-> <<Request("update", q(d).val, update_dict(d))>> ]

\* Document._update_in_db up to the await of the store.
_update_in_db(d) ==
    IF d.dirty = {} THEN [out |-> "ok", d |-> d, reqs |-> <<>>]
    ELSE IF validate(d) # "ok" THEN Raise(d, validate(d))
    ELSE IF ConvertAll(d, d.dirty \cap DeclaredFields(d.cls)) # "ok"
    THEN Raise(Converted(d, d.dirty), ConvertAll(d, d.dirty \cap DeclaredFields(d.cls)))
    ELSE [ out |-> "pending",
           d |-> [Converted(d, d.dirty) EXCEPT !.dirty = {}, !.pend = "update"],
           reqs |-> <<Request("update", q(d).val, update_dict(d))>> ]

\* Document.save
save(d) == IF d.stored THEN _update_in_db(d) ELSE _insert_into_db(d)

\* Document.delete up to the await of the store.
delete(d) ==
    [ out |-> "pending", d |-> [d EXCEPT !.pend = "delete"],
      reqs |-> <<Request("delete", q(d).val, NoDoc)>> ]

\* A variant of delete_result that resets the record of updated fields as a
\* save does.
delete_result_clearing(d) == [d EXCEPT !.stored = FALSE, !.pend = "none", !.dirty = {}]

\* Document.delete after the store has answered.
delete_result(d) == [d EXCEPT !.stored = FALSE, !.pend = "none"]

\* A variant of run_raised in which the instance counts as stored although the
\* run raised.
run_raised_stored(d) == [d EXCEPT !.pend = "none", !.stored = TRUE]

\* The run of a pending request raised: the coroutine ends there.
run_raised(d) == [d EXCEPT !.pend = "none"]

\* Document.from_doc for a class without lazy fields: a db key found in
\* _dbname_to_field_name fills that declared field, any other key becomes an
\* undeclared field.  Nothing is marked dirty.
from_doc(c, doc, stored_in_db) ==
    [ NewDoc(c) EXCEPT
        !.stored = stored_in_db,
        !.vals = [ n \in Names |->
                     IF \E k \in DbKeys : doc[k] # Unset /\ <<k, n>> \in dbname_to_field_name
                     THEN doc[CHOOSE k \in DbKeys : doc[k] # Unset /\ <<k, n>> \in dbname_to_field_name]
                     ELSE Unset ],
        !.und = [ k \in UKeys |->
                     IF \E n \in Names : <<k, n>> \in dbname_to_field_name
                     THEN Unset ELSE doc[k] ] ]

\* Document.copy for a class without lazy fields: a new instance, then
\* doc[k] = self[k] for the keys of which, the primary key left out unless
\* only undeclared fields are copied.
copy(d, which) ==
    LET ks == keys(d, which) \ (IF which = UNDECLARED_ONLY THEN {} ELSE {pkey(d.cls)})
        src(k) == getitem(d, k).val
        fresh == NewDoc(d.cls)
    IN  [ fresh EXCEPT
            !.vals = [ n \in Names |->
                         IF n \in ks /\ has_field_attr(d.cls, n) THEN src(n) ELSE Unset ],
            !.und = [ k \in UKeys |->
                         IF k \in ks /\ ~has_field_attr(d.cls, k) THEN src(k) ELSE Unset ],
            !.dirty = ks ]

(***************************************************************************)
(* Operations on one Document instance of class Doc.  phase and touched    *)
(* are history: phase tells whether the instance is new, has returned from *)
(* its first save, or has begun the save after that; touched collects the  *)
(* names written, or deleted while they held a value, since then.          *)
(***************************************************************************)
Idle == \A o \in DOMAIN objs : objs[o].pend = "none"

Done(o, nm, key, val, out) ==
    [obj |-> o, name |-> nm, key |-> key, val |-> val, out |-> out]

Ghost(d, ph, t) == [d EXCEPT !.phase = ph, !.touched = t]

Leave(d) == IF d.phase = "second" THEN Ghost(d, "other", {}) ELSE d

Touch(d, n, eff) ==
    IF d.phase = "saved1" /\ eff THEN [d EXCEPT !.touched = @ \cup {n}] ELSE Leave(d)

WriteKeys == {"pkey", "f1", "f2", "u", "field1"}

DelKeys == {"pkey", "f1", "f2", "u"}

ReadKeys == {"f1", "u"}

WriteVals(k) ==
    CASE k = "pkey" -> {1}
      [] k = "f1" -> 1..MaxVal
      [] k = "f2" -> 0..MaxVal
      [] OTHER -> {1}

\* The documents a point lookup may return.
StoreDocs ==
    { doc \in [DbKeys -> {Unset} \cup 1..MaxVal] :
        /\ doc["id"] = 1
        /\ doc["field1"] \in {Unset, 1}
        /\ doc["f1"] \in {Unset, 1}
        /\ doc["f2"] \in {Unset, 1}
        /\ doc["u"] \in {Unset, 1} }

DocNew(o) ==
    /\ Idle
    /\ objs' = [objs EXCEPT ![o] = NewDoc(objs[o].cls)]
    /\ op' = Done(o, "new", "", None, "ok")
    /\ reqs' = <<>>
    /\ copied' = <<>>
    /\ UNCHANGED defined

SetItem(o, k, v) ==
    /\ Idle
    /\ LET r == setitem(objs[o], k, v)
       IN  /\ objs' = [objs EXCEPT ![o] = Touch(r.d, FieldName(r.d, k), r.out = "ok")]
           /\ op' = Done(o, "setitem", k, v, r.out)
    /\ reqs' = <<>>
    /\ copied' = <<>>
    /\ UNCHANGED defined

HoldsValue(d, n) ==
    IF has_field_attr(d.cls, n) THEN d.vals[n] # Unset
    ELSE n \in UKeys /\ d.und[n] # Unset

DelItem(o, k) ==
    /\ Idle
    /\ LET r == delitem(objs[o], k)
           n == FieldName(r.d, k)
       IN  /\ objs' = [objs EXCEPT ![o] = Touch(r.d, n, HoldsValue(objs[o], n))]
           /\ op' = Done(o, "delitem", k, None, r.out)
    /\ reqs' = <<>>
    /\ copied' = <<>>
    /\ UNCHANGED defined

GetItem(o, k) ==
    /\ Idle
    /\ objs' = [objs EXCEPT ![o] = Leave(@)]
    /\ op' = Done(o, "getitem", k, getitem(objs[o], k).val, getitem(objs[o], k).out)
    /\ reqs' = <<>>
    /\ copied' = <<>>
    /\ UNCHANGED defined

Validate(o) ==
    /\ Idle
    /\ objs' = [objs EXCEPT ![o] = Leave(@)]
    /\ op' = Done(o, "validate", "", None, validate(objs[o]))
    /\ reqs' = <<>>
    /\ copied' = <<>>
    /\ UNCHANGED defined

Copy(o, which) ==
    /\ Idle
    /\ objs' = [objs EXCEPT ![o] = Leave(@)]
    /\ copied' = <<copy(objs[o], which)>>
    /\ op' = Done(o, "copy", "", which, "ok")
    /\ reqs' = <<>>
    /\ UNCHANGED defined

SaveBegin(o) ==
    /\ Idle
    /\ LET d == objs[o]
           r == save(d)
           ph == CASE d.phase = "new" /\ r.out = "pending" /\ getitem(d, "pkey").val # None -> "other"
                   [] d.phase = "new" -> "new"
                   [] d.phase = "saved1" /\ r.out \in {"pending", "ok"} -> "second"
                   [] d.phase = "saved1" -> "saved1"
                   [] OTHER -> "other"
       IN  /\ objs' = [objs EXCEPT ![o] = Ghost(r.d, ph, IF ph \in {"saved1", "second"} THEN d.touched ELSE {})]
           /\ op' = Done(o, "save", "", None, r.out)
           /\ reqs' = r.reqs
    /\ copied' = <<>>
    /\ UNCHANGED defined

\* The store answers the pending insert or update, or the run raises.  An
\* insert is answered with a generated key exactly when it carried none.
SaveComplete(o, ok, gen) ==
    /\ objs[o].pend \in {"insert", "update"}
    /\ (gen # Unset) <=> (ok /\ objs[o].pend = "insert" /\ reqs[1].doc["id"] = Unset)
    /\ LET d == objs[o]
           e == IF ~ok THEN run_raised(d)
                ELSE IF d.pend = "insert" THEN insert_result(d, gen)
                ELSE [d EXCEPT !.pend = "none"]
       IN  objs' = [objs EXCEPT ![o] =
                      IF ok /\ d.pend = "insert" /\ d.phase = "new"
                      THEN Ghost(e, "saved1", {}) ELSE e]
    /\ op' = Done(o, "save", "", gen, IF ok THEN "ok" ELSE "ReqlError")
    /\ copied' = <<>>
    /\ UNCHANGED <<defined, reqs>>

DeleteBegin(o) ==
    /\ Idle
    /\ LET r == delete(objs[o])
       IN  /\ objs' = [objs EXCEPT ![o] = Ghost(r.d, "other", {})]
           /\ op' = Done(o, "delete", "", None, r.out)
           /\ reqs' = r.reqs
    /\ copied' = <<>>
    /\ UNCHANGED defined

DeleteComplete(o, ok) ==
    /\ objs[o].pend = "delete"
    /\ objs' = [objs EXCEPT ![o] = IF ok THEN delete_result(@) ELSE run_raised(@)]
    /\ op' = Done(o, "delete", "", None, IF ok THEN "ok" ELSE "ReqlError")
    /\ copied' = <<>>
    /\ UNCHANGED <<defined, reqs>>

\* Document.load: the lookup finds nothing, or returns a document that
\* from_doc turns into the instance the caller gets.
LoadFound(o, res) ==
    /\ Idle
    /\ objs' = [objs EXCEPT ![o] = Ghost(from_doc(objs[o].cls, res, TRUE), "other", {})]
    /\ op' = Done(o, "load", "", res["id"], "ok")
    /\ reqs' = <<Request("get", res["id"], NoDoc)>>
    /\ copied' = <<>>
    /\ UNCHANGED defined

LoadNotFound(o, key) ==
    /\ Idle
    /\ objs' = [objs EXCEPT ![o] = Leave(@)]
    /\ op' = Done(o, "load", "", key, "NotFoundError")
    /\ reqs' = <<Request("get", key, NoDoc)>>
    /\ copied' = <<>>
    /\ UNCHANGED defined

InitDoc ==
    /\ defined = {"Doc"}
    /\ objs = [o \in {"d"} |-> NewDoc("Doc")]
    /\ copied = <<>>
    /\ op = Done("d", "new", "", None, "ok")
    /\ reqs = <<>>
    /\ feed = NoFeed
    /\ iter = NewIter
    /\ lz = NoValue
    /\ lop = LazyDone("", None, "ok", None, 0)
    /\ fc = NewContainer
    /\ cop = ContDone("new", "", None, "ok", None)
    /\ cache = NoCache
    /\ vop = NoValidation
    /\ reg = NoRegistry
    /\ index = NoIndex
    /\ pool = NewPool
    /\ pop = NoPoolOp
    /\ heap = NewHeap
    /\ hop = NoHeapOp

DocOps ==
    \/ DocNew("d")
    \/ \E k \in WriteKeys : \E v \in WriteVals(k) : SetItem("d", k, v)
    \/ \E k \in DelKeys : DelItem("d", k)
    \/ \E k \in ReadKeys : GetItem("d", k)
    \/ Validate("d")
    \/ \E w \in Whichs : Copy("d", w)
    \/ SaveBegin("d")
    \/ \E ok \in BOOLEAN : \E gen \in GenKeys \cup {Unset} : SaveComplete("d", ok, gen)
    \/ DeleteBegin("d")
    \/ \E ok \in BOOLEAN : DeleteComplete("d", ok)
    \/ \E res \in StoreDocs : LoadFound("d", res)
    \/ LoadNotFound("d", 1)

NextDoc == DocOps /\ UNCHANGED <<feedvars, lazyvars, contvars, typevars, classvars, connvars, heapvars>>

SpecDoc == InitDoc /\ [][NextDoc]_vars

(***************************************************************************)
(* Properties of save(), load(), delete() and copy() on a Document.        *)
(***************************************************************************)
Sent(doc) == { k \in DbKeys : doc[k] # Unset }

DbNamesOf(d, ns) == { IF has_field_attr(d.cls, n) THEN dbname(d.cls, n) ELSE n : n \in ns }

\* The db value of field n of d, as an update sends it.
DbValueOf(d, n) ==
    IF has_field_attr(d.cls, n) THEN _get_value(d, n)
    ELSE IF d.und[n] # Unset THEN d.und[n] ELSE None

\* The first save() of a never persisted instance without primary key: one
\* insert that omits the primary key.
FirstSaveIssues(o) ==
    (/\ objs[o].phase = "new" /\ objs[o].pend = "none"
     /\ getitem(objs[o], "pkey").val = None
     /\ op'.name = "save" /\ op'.out = "pending")
    => /\ Len(reqs') = 1
       /\ reqs'[1].kind = "insert"
       /\ reqs'[1].doc[dbname(objs[o].cls, pkey(objs[o].cls))] = Unset

\* ... and when the store has answered: generated key written back, stored,
\* nothing dirty, nothing else sent.
FirstSaveReturns(o) ==
    (/\ objs[o].phase = "new" /\ objs[o].pend = "insert"
     /\ op'.name = "save" /\ op'.out = "ok")
    => /\ op'.val \in GenKeys
       /\ objs'[o].vals[pkey(objs[o].cls)] = op'.val
       /\ objs'[o].stored
       /\ objs'[o].dirty = {}
       /\ reqs' = reqs

\* The update the following save() sends for the touched fields.
SecondSaveUpdate(o) ==
    /\ Len(reqs') = 1
    /\ reqs'[1].kind = "update"
    /\ reqs'[1].key = getitem(objs[o], "pkey").val
    /\ Sent(reqs'[1].doc) = DbNamesOf(objs[o], objs[o].touched)
    /\ \A n \in objs[o].touched :
          reqs'[1].doc[CHOOSE k \in DbNamesOf(objs[o], {n}) : TRUE] = DbValueOf(objs[o], n)

SecondSaveBegins(o) ==
    /\ objs[o].phase = "saved1" /\ objs[o].pend = "none"
    /\ op'.name = "save" /\ op'.out \in {"pending", "ok"}

C2_FailedValidationChangesNothing ==
    [][ \A o \in DOMAIN objs :
          (op'.obj = o /\ op'.name = "save" /\ op'.out = "ValidationError")
          => /\ reqs' = <<>>
             /\ objs'[o].stored = objs[o].stored
             /\ objs'[o].dirty = objs[o].dirty
             /\ objs'[o].vals[pkey(objs[o].cls)] = objs[o].vals[pkey(objs[o].cls)]
             /\ objs'[o].pend = "none" ]_vars

\* A save() on the update path, with dirty fields, has raised ValidationError.
C2_Witness ==
    \E o \in DOMAIN objs :
        /\ op.obj = o /\ op.name = "save" /\ op.out = "ValidationError"
        /\ objs[o].stored
        /\ objs[o].dirty # {}

\* C3: a freshly constructed Document is not stored; stored_in_db turns true
\* only when save()'s insert has succeeded or the instance comes from a
\* successful load(), turns false only by delete() (or because the name is
\* bound to a new instance), and no field read, write, delete, validate or
\* copy changes it.
C3_StoredInDbTransitions ==
    /\ \A o \in DOMAIN objs : ~objs[o].stored
    /\ [][ \A o \in DOMAIN objs :
             /\ op'.name = "new" /\ op'.obj = o => ~objs'[o].stored
             /\ op'.name = "copy" => ~copied'[1].stored
             /\ (~objs[o].stored /\ objs'[o].stored) =>
                   \/ op'.name = "save" /\ op'.out = "ok" /\ objs[o].pend = "insert"
                   \/ op'.name = "load" /\ op'.out = "ok"
             /\ (objs[o].stored /\ ~objs'[o].stored) =>
                   \/ op'.name = "delete" /\ op'.out = "ok"
                   \/ op'.name = "new"
             /\ op'.name \in {"getitem", "setitem", "delitem", "validate", "copy"} =>
                   objs'[o].stored = objs[o].stored ]_vars

\* A store error has ended a save() on the insert path: still not stored.
C3_Witness ==
    \E o \in DOMAIN objs :
        /\ op.name = "save" /\ op.out = "ReqlError"
        /\ ~objs[o].stored
        /\ objs[o].dirty = {}

\* The db keys a request document has.
SentKeys(doc) == { k \in DOMAIN doc : doc[k] # Unset }

\* C31: the document an insert carries has, under its db-name, the value
\* every declared field reads (the default for an unset one), but no primary
\* key that reads None, and every undeclared field; the document an update
\* carries has exactly the names of the dirty set, a declared one under its
\* db-name with the value it reads, an undeclared one with its value, None
\* when it has been deleted; a save() of a stored instance with an empty
\* dirty set returns without a request.
C31_SaveSendsTheRightDocument ==
    [][ \A o \in DOMAIN objs \cap DOMAIN objs' :
          LET d == objs[o]
              begins == op'.obj = o /\ op'.name = "save" /\ d.pend = "none"
          IN  /\ (begins /\ op'.out = "pending" /\ ~d.stored) =>
                   /\ Len(reqs') = 1 /\ reqs'[1].kind = "insert"
                   /\ SentKeys(reqs'[1].doc) =
                        { dbname(d.cls, n) : n \in { m \in DeclaredFields(d.cls) :
                              ~(primary_key(d.cls, m) /\ _get_value(d, m) = None) } }
                        \cup { k \in UKeys : d.und[k] # Unset }
                   /\ \A n \in DeclaredFields(d.cls) :
                        dbname(d.cls, n) \in SentKeys(reqs'[1].doc) =>
                            reqs'[1].doc[dbname(d.cls, n)] = _get_value(d, n)
                   /\ \A k \in UKeys : d.und[k] # Unset => reqs'[1].doc[k] = d.und[k]
              /\ (begins /\ op'.out = "pending" /\ d.stored) =>
                   /\ Len(reqs') = 1 /\ reqs'[1].kind = "update"
                   /\ SentKeys(reqs'[1].doc) =
                        { dbname(d.cls, n) : n \in d.dirty \cap DeclaredFields(d.cls) }
                        \cup (d.dirty \ DeclaredFields(d.cls))
                   /\ \A n \in d.dirty \cap DeclaredFields(d.cls) :
                        reqs'[1].doc[dbname(d.cls, n)] = _get_value(d, n)
                   /\ \A k \in d.dirty \ DeclaredFields(d.cls) :
                        reqs'[1].doc[k] = IF d.und[k] # Unset THEN d.und[k] ELSE None
              /\ (begins /\ d.stored /\ d.dirty = {}) =>
                   /\ op'.out = "ok"
                   /\ reqs' = <<>>
      ]_vars

\* An update that carries a declared field under a db-name that is not the
\* field's name, and None for an undeclared field that has been deleted.
C31_Witness ==
    /\ op.obj = "d" /\ op.name = "save" /\ op.out = "pending"
    /\ Len(reqs) = 1 /\ reqs[1].kind = "update"
    /\ reqs[1].doc["field1"] = 1 /\ reqs[1].doc["f1"] = Unset
    /\ reqs[1].doc["u"] = None /\ reqs[1].doc["f2"] = Unset

\* C33: when the store's run raises in save(), every field the request
\* carried, which is every field that was dirty when save() was called on the
\* update path, is in the dirty set afterwards, and stored_in_db is as it
\* was.
C33_FailedSaveKeepsDirty ==
    [][ \A o \in DOMAIN objs \cap DOMAIN objs' :
          (op'.obj = o /\ op'.name = "save" /\ op'.out = "ReqlError") =>
              /\ objs'[o].stored = objs[o].stored
              /\ objs[o].pend = "update" =>
                   /\ \A n \in DeclaredFields(objs[o].cls) :
                        reqs[1].doc[dbname(objs[o].cls, n)] # Unset => n \in objs'[o].dirty
                   /\ \A k \in UKeys : reqs[1].doc[k] # Unset => k \in objs'[o].dirty
      ]_vars

\* The values of a Document, without the history.
Values(d) == [vals |-> d.vals, und |-> d.und, dirty |-> d.dirty, stored |-> d.stored]

\* C25: delete() sends one delete request for the document at the value of
\* the primary key field and, when the store has answered, leaves the
\* instance with stored_in_db false; neither step changes a declared value,
\* an undeclared field, the lazy slot or the set of updated fields; a save()
\* that follows sends an insert, never an update.
C25_DeleteKeepsLocalState ==
    [][ \A o \in DOMAIN objs \cap DOMAIN objs' :
          LET d == objs[o]
              e == objs'[o]
          IN  /\ (op'.obj = o /\ op'.name = "delete") =>
                   /\ e.vals = d.vals
                   /\ e.und = d.und
                   /\ e.dirty = d.dirty
                   /\ e.lazy = d.lazy
              /\ (op'.obj = o /\ op'.name = "delete" /\ op'.out = "pending") =>
                   /\ reqs' = <<Request("delete", _get_value(d, pkey(d.cls)), NoDoc)>>
                   /\ e.stored = d.stored
              /\ (op'.obj = o /\ op'.name = "delete" /\ op'.out = "ok") => ~e.stored
              /\ (op.obj = o /\ op.name = "delete" /\ op.out = "ok"
                    /\ op'.obj = o /\ op'.name = "save" /\ d.pend = "none") =>
                   /\ op'.out \in {"pending", "ValidationError"}
                   /\ op'.out = "pending" =>
                        /\ Len(reqs') = 1
                        /\ reqs'[1].kind = "insert"
                        /\ reqs'[1].doc = insert_dict(d)
      ]_vars

\* A delete the store answered, of an instance that was saved, then written
\* to: the primary key, the undeclared field and the updated-field record are
\* still there.
C25_Witness ==
    /\ op.obj = "d" /\ op.name = "delete" /\ op.out = "ok"
    /\ ~objs["d"].stored
    /\ objs["d"].vals[pkey(objs["d"].cls)] # Unset
    /\ objs["d"].dirty # {}
    /\ \E k \in UKeys : objs["d"].und[k] # Unset


\* C4 as stated: copy() returns an unstored instance of the same class whose
\* primary key is unset and whose other declared and undeclared fields have
\* the values of the source; the source is unchanged.
C4_CopyKeepsEveryField ==
    [][ \A o \in DOMAIN objs :
          (op'.name = "copy" /\ op'.obj = o /\ op'.val = ALL)
          => /\ copied'[1].cls = objs[o].cls
             /\ ~copied'[1].stored
             /\ copied'[1].vals[pkey(objs[o].cls)] = Unset
             /\ \A n \in DeclaredFields(objs[o].cls) \ {pkey(objs[o].cls)} :
                   _get_value(copied'[1], n) = _get_value(objs[o], n)
             /\ \A k \in UKeys : copied'[1].und[k] = objs[o].und[k]
             /\ Values(objs'[o]) = Values(objs[o]) ]_vars

(***************************************************************************)
(* A Doc2 instance r with a ReferenceField to the Doc1 instance t.         *)
(***************************************************************************)
RefAssign(o, tgt) ==
    /\ Idle
    /\ LET r == lazy_set_value(objs[o], tgt)
       IN  /\ objs' = [objs EXCEPT ![o] = Touch(r.d, "f1", r.out = "ok")]
           /\ op' = Done(o, "setitem", "f1", None, r.out)
    /\ reqs' = <<>>
    /\ copied' = <<>>
    /\ UNCHANGED defined

\* Reading the attribute: Field.__get__ calls LazyField._get_value.
RefRead(o) ==
    /\ Idle
    /\ objs' = [objs EXCEPT ![o] = Leave(lazy_get_value(@))]
    /\ op' = Done(o, "getitem", "f1", None, "ok")
    /\ reqs' = <<>>
    /\ copied' = <<>>
    /\ UNCHANGED defined

\* Value.load through the attribute, d.f1.load() (fields/lazy.py): the field's
\* Value fetches the target by val_doc with Doc1.load, which answers with a
\* Document built by from_doc, finds nothing or fails; the result becomes the
\* cached value.  The loaded Document is the instance l.
RefLoad(o, res) ==
    /\ Idle
    /\ LET d == lazy_get_value(objs[o])
       IN  IF res = "found" /\ d.lazy.val_doc # None
           THEN /\ objs' = [objs EXCEPT
                              ![o] = Leave([d EXCEPT !.lazy.loaded = TRUE, !.lazy.cached = "l"]),
                              !["l"] = from_doc("Doc1", [NoDoc EXCEPT !["id"] = d.lazy.val_doc], TRUE)]
                /\ op' = Done(o, "lazyload", "f1", d.lazy.val_doc, "ok")
           ELSE /\ objs' = [objs EXCEPT ![o] = Leave(d)]
                /\ op' = Done(o, "lazyload", "f1", d.lazy.val_doc,
                              IF res = "found" THEN "ReqlError" ELSE res)
    /\ reqs' = <<>>
    /\ copied' = <<>>
    /\ UNCHANGED defined

InitRef ==
    /\ defined = {"Doc1", "Doc2"}
    /\ objs = [o \in {"t", "r", "l"} |-> NewDoc(IF o = "r" THEN "Doc2" ELSE "Doc1")]
    /\ copied = <<>>
    /\ op = Done("r", "new", "", None, "ok")
    /\ reqs = <<>>
    /\ feed = NoFeed
    /\ iter = NewIter
    /\ lz = NoValue
    /\ lop = LazyDone("", None, "ok", None, 0)
    /\ fc = NewContainer
    /\ cop = ContDone("new", "", None, "ok", None)
    /\ cache = NoCache
    /\ vop = NoValidation
    /\ reg = NoRegistry
    /\ index = NoIndex
    /\ pool = NewPool
    /\ pop = NoPoolOp
    /\ heap = NewHeap
    /\ hop = NoHeapOp

RefOps ==
    \/ DocNew("r")
    \/ \E tgt \in {"t", "None"} : RefAssign("r", tgt)
    \/ RefRead("r")
    \/ \E res \in {"found", "NotFoundError", "ReqlError"} : RefLoad("r", res)
    \/ \E o \in {"t", "r"} : DelItem(o, IF o = "t" THEN "id" ELSE "f1")
    \/ \E v \in 1..MaxVal : SetItem("t", "id", v)
    \/ Validate("r")
    \/ \E o \in {"t", "r"} : SaveBegin(o)
    \/ \E o \in {"t", "r"} : \E ok \in BOOLEAN : \E gen \in GenKeys \cup {Unset} :
          SaveComplete(o, ok, gen)
    \/ \E o \in {"t", "r"} : DeleteBegin(o)
    \/ \E o \in {"t", "r"} : \E ok \in BOOLEAN : DeleteComplete(o, ok)

NextRef == RefOps /\ UNCHANGED <<feedvars, lazyvars, contvars, typevars, classvars, connvars, heapvars>>

SpecRef == InitRef /\ [][NextRef]_vars

RefersTo(d, tgt) == d.lazy.held /\ d.lazy.loaded /\ d.lazy.cached = tgt

SaveCalled(o) == objs[o].pend = "none" /\ op'.name = "save" /\ op'.obj = o

\* C5: save() of an unpersisted Document whose reference field holds a target
\* that is not stored raises ValidationError, issues no insert and leaves the
\* Document unpersisted; once the target is stored, save() of the same
\* instance issues an insert whose reference entry is the target's primary
\* key, and the instance is stored when the store has answered.
C5_ReferenceToUnsavedTarget ==
    [][ /\ (SaveCalled("r") /\ ~objs["r"].stored /\ RefersTo(objs["r"], "t") /\ ~objs["t"].stored)
           => /\ op'.out = "ValidationError"
              /\ reqs' = <<>>
              /\ ~objs'["r"].stored /\ objs'["r"].pend = "none"
        /\ (SaveCalled("r") /\ ~objs["r"].stored /\ RefersTo(objs["r"], "t") /\ objs["t"].stored)
           => /\ op'.out = "pending"
              /\ Len(reqs') = 1 /\ reqs'[1].kind = "insert"
              /\ reqs'[1].doc["f1"] = _get_value(objs["t"], pkey("Doc1"))
        /\ (objs["r"].pend = "insert" /\ op'.obj = "r" /\ op'.out = "ok")
           => objs'["r"].stored /\ reqs' = reqs ]_vars

\* The referencing instance is stored, its insert carried the generated key
\* of the saved target.
C5_Witness ==
    /\ objs["r"].stored /\ objs["t"].stored
    /\ RefersTo(objs["r"], "t")
    /\ op.obj = "r" /\ op.name = "save" /\ op.out = "ok"
    /\ Len(reqs) = 1 /\ reqs[1].kind = "insert"
    /\ reqs[1].doc["f1"] \in GenKeys
    /\ reqs[1].doc["f1"] = objs["t"].vals["id"]

\* C11: load() on a lazy value held in a container's field makes it loaded,
\* overwrites its cached value and marks the owning field dirty on the owning
\* container; set(v) makes it loaded with cached value v and sets the db
\* representation to the conversion of v.
C11_LoadMarksOwnerDirty ==
    [][ /\ (op'.name = "lazyload" /\ op'.obj = "r" /\ op'.out = "ok")
           => /\ objs'["r"].lazy.loaded
              /\ objs'["r"].lazy.cached = "l"
              /\ "f1" \in objs'["r"].dirty
        /\ \A tgt \in {"t", "None"} :
             (objs["r"].lazy.held /\ RefAssign("r", tgt))
             => /\ objs'["r"].lazy.loaded
                /\ objs'["r"].lazy.cached = tgt
                /\ tgt # "None" =>
                      objs'["r"].lazy.val_doc = _get_value(objs["t"], pkey("Doc1")) ]_vars

(***************************************************************************)
(* Change feeds (db.py).  A message either carries a new_val, which is     *)
(* None when a document was deleted, or it is a status message.  The       *)
(* mapper is the value type's dbval_to_pyval, which turns db values into   *)
(* other Python objects and None into None.                                *)
(***************************************************************************)
MaxMsgs == 3

PyBase == 20

Messages ==
    { [has_new |-> FALSE, new_val |-> None] }
    \cup { [has_new |-> TRUE, new_val |-> v] : v \in Vals }

mapper(dbval) == IF dbval = None THEN None ELSE PyBase + dbval

\* A variant of the loop body that also skips messages whose new_val is None.
anext_skip_none(message) ==
    IF ~message.has_new \/ message.new_val = None THEN [returns |-> FALSE, obj |-> None]
    ELSE [returns |-> TRUE, obj |-> mapper(message.new_val)]

\* The body of the loop of ChangesAsyncMap.__anext__ for one message.
anext(message) ==
    IF ~message.has_new THEN [returns |-> FALSE, obj |-> None]
    ELSE [returns |-> TRUE, obj |-> mapper(message.new_val)]

\* CursorAsyncIterator.as_list, which iterates and collects.
as_list_collect(i) == [i EXCEPT !.as_list = "list", !.consumed = Len(feed.msgs)]

\* ChangesAsyncMap.as_list
as_list(i) == [i EXCEPT !.as_list = "NotImplementedError"]

\* The feed delivers a message.
Deliver(m) ==
    /\ ~feed.closed
    /\ Len(feed.msgs) < MaxMsgs
    /\ feed' = [feed EXCEPT !.msgs = Append(@, m)]
    /\ UNCHANGED iter

\* The feed ends: from now on its cursor reports that it is empty.
Close ==
    /\ ~feed.closed
    /\ feed' = [feed EXCEPT !.closed = TRUE]
    /\ UNCHANGED iter

\* __anext__ is called and awaits cursor.next().
AnextCall ==
    /\ iter.at # "waiting"
    /\ iter' = [iter EXCEPT !.at = "waiting", !.as_list = ""]
    /\ UNCHANGED feed

\* cursor.next() returns the next message: __anext__ returns it with the
\* mapped new_val, or goes on waiting.
AnextMessage ==
    /\ iter.at = "waiting"
    /\ iter.consumed < Len(feed.msgs)
    /\ LET message == feed.msgs[iter.consumed + 1]
           r == anext(message)
       IN  iter' = [iter EXCEPT
                      !.consumed = @ + 1,
                      !.at = IF r.returns THEN "idle" ELSE "waiting",
                      !.yielded = IF r.returns
                                  THEN Append(@, [obj |-> r.obj, msg |-> message])
                                  ELSE @]
    /\ UNCHANGED feed

\* cursor.next() raises ReqlCursorEmpty: __anext__ raises StopAsyncIteration.
AnextEmpty ==
    /\ iter.at = "waiting"
    /\ iter.consumed = Len(feed.msgs)
    /\ feed.closed
    /\ iter' = [iter EXCEPT !.at = "done"]
    /\ UNCHANGED feed

AsList ==
    /\ iter.at # "waiting"
    /\ iter' = as_list(iter)
    /\ UNCHANGED feed

InitFeed ==
    /\ feed = NoFeed
    /\ iter = NewIter
    /\ lz = NoValue
    /\ lop = LazyDone("", None, "ok", None, 0)
    /\ fc = NewContainer
    /\ cop = ContDone("new", "", None, "ok", None)
    /\ cache = NoCache
    /\ vop = NoValidation
    /\ reg = NoRegistry
    /\ index = NoIndex
    /\ pool = NewPool
    /\ pop = NoPoolOp
    /\ heap = NewHeap
    /\ hop = NoHeapOp
    /\ defined = {}
    /\ objs = <<>>
    /\ copied = <<>>
    /\ op = Done("", "new", "", None, "ok")
    /\ reqs = <<>>

FeedOps ==
    \/ \E m \in Messages : Deliver(m)
    \/ Close
    \/ AnextCall
    \/ AnextMessage
    \/ AnextEmpty
    \/ AsList

NextFeed == FeedOps /\ UNCHANGED <<docvars, lazyvars, contvars, typevars, classvars, connvars, heapvars>>

SpecFeed == InitFeed /\ [][NextFeed]_vars

\* The pairs __anext__ has to return for the messages ms.
RECURSIVE Expected(_)
Expected(ms) ==
    IF ms = <<>> THEN <<>>
    ELSE LET rest == Expected(Tail(ms))
         IN  IF Head(ms).has_new
             THEN <<[obj |-> mapper(Head(ms).new_val), msg |-> Head(ms)]>> \o rest
             ELSE rest

\* C6: what the iterator has yielded is, in order and once each, the consumed
\* messages that contain new_val, each paired with the mapper applied to its
\* new_val; status messages are left out, messages whose new_val is None are
\* not.
C6_YieldsMessagesWithNewVal ==
    iter.yielded = Expected(SubSeq(feed.msgs, 1, iter.consumed))

\* A deletion was yielded after a status message had been skipped.
C6_Witness ==
    /\ Len(iter.yielded) >= 2
    /\ iter.yielded[Len(iter.yielded)].msg.new_val = None
    /\ iter.yielded[Len(iter.yielded)].obj = None
    /\ iter.yielded[1].obj # iter.yielded[1].msg.new_val
    /\ \E i \in 1..iter.consumed : ~feed.msgs[i].has_new

\* C8: the iterator signals the end only when the cursor reports that it is
\* empty; __anext__ returns on the first message that carries new_val and
\* waits on through any other; as_list() raises NotImplementedError and
\* consumes nothing.
C8_EndsOnlyWhenCursorEmpty ==
    [][ /\ (iter'.at = "done" /\ iter.at # "done") =>
              /\ feed.closed /\ iter.consumed = Len(feed.msgs)
              /\ iter.at = "waiting"
        /\ (iter.at = "waiting" /\ iter'.consumed # iter.consumed) =>
              /\ iter'.consumed = iter.consumed + 1
              /\ IF feed.msgs[iter'.consumed].has_new
                 THEN iter'.at = "idle" /\ Len(iter'.yielded) = Len(iter.yielded) + 1
                 ELSE iter'.at = "waiting" /\ iter'.yielded = iter.yielded
        /\ (iter.at = "waiting" /\ iter'.at = "idle") => iter'.consumed # iter.consumed
        /\ (iter'.as_list # "" /\ iter'.as_list # iter.as_list) =>
              /\ iter'.as_list = "NotImplementedError"
              /\ iter'.consumed = iter.consumed /\ iter'.yielded = iter.yielded ]_vars

\* The iteration has ended after the feed was closed, having skipped a
\* message, and as_list() has raised.
C8_Witness ==
    /\ iter.at = "done"
    /\ iter.as_list = "NotImplementedError"
    /\ feed.closed
    /\ Len(iter.yielded) >= 1
    /\ Len(iter.yielded) < Len(feed.msgs)

(***************************************************************************)
(* Lazy values (values_and_valuetypes/lazy.py), for the SimpleLazyValue of *)
(* the tests: the value is a lower-case string, its db representation the  *)
(* upper-case one, _load lower-cases and _convert_to_db upper-cases.       *)
(* Lower-case strings are 1..MaxVal, UpBase + k is k in upper case and     *)
(* MixBase + k is k in mixed case.  with_cached and completed are history: *)
(* the instance was constructed with a cached value; a load() or a set()   *)
(* has returned normally on it.                                            *)
(***************************************************************************)
UpBase == 30

MixBase == 40

LowerStrs == 1..MaxVal

lower(x) == IF x > MixBase THEN x - MixBase ELSE IF x > UpBase THEN x - UpBase ELSE x

upper(x) == UpBase + lower(x)

\* StringValueType(regex = "^[a-z]*$").validate; None passes.
StringValidate(v) == IF v = None \/ v \in LowerStrs THEN "ok" ELSE "ValidationError"

LazyRet(out, l, ret, n) == [out |-> out, l |-> l, ret |-> ret, fetches |-> n]

\* SimpleLazyValue._load: None has no lower().
LazyValue_fetch(dbval) ==
    IF dbval = None THEN [out |-> "AttributeError", val |-> None]
    ELSE [out |-> "ok", val |-> lower(dbval)]

\* LazyValue.load
LazyValue_load(l) ==
    LET f == LazyValue_fetch(l.val_db)
    IN  IF f.out # "ok" THEN LazyRet(f.out, l, None, 1)
        ELSE LazyRet("ok", [l EXCEPT !.val_cached = f.val, !.loaded = TRUE], f.val, 1)

\* LazyValue.get
LazyValue_get(l) ==
    IF ~l.loaded THEN LazyRet("NotLoadedError", l, None, 0)
    ELSE LazyRet("ok", l, l.val_cached, 0)

\* A variant of _get_or_load that loads in any case.
LazyValue_always_load(l) == LazyValue_load(l)

\* LazyValue._get_or_load, which __await__ runs.
LazyValue_get_or_load(l) ==
    IF l.loaded THEN LazyRet("ok", l, l.val_cached, 0) ELSE LazyValue_load(l)

\* A variant of set that caches the value before it validates it.
LazyValue_set_then_validate(l, new_val) ==
    IF StringValidate(new_val) # "ok"
    THEN LazyRet("ValidationError", [l EXCEPT !.val_cached = new_val, !.loaded = TRUE], None, 0)
    ELSE IF new_val = None
    THEN LazyRet("AttributeError", [l EXCEPT !.val_cached = None, !.loaded = TRUE], None, 0)
    ELSE LazyRet("ok", [l EXCEPT !.val_cached = new_val, !.loaded = TRUE,
                                 !.val_db = upper(new_val)], None, 0)

\* LazyValue.set: the value is cached and loaded is set before the value is
\* converted; upper() of None raises.
LazyValue_set(l, new_val) ==
    IF StringValidate(new_val) # "ok" THEN LazyRet("ValidationError", l, None, 0)
    ELSE IF new_val = None
    THEN LazyRet("AttributeError", [l EXCEPT !.val_cached = None, !.loaded = TRUE], None, 0)
    ELSE LazyRet("ok", [l EXCEPT !.val_cached = new_val, !.loaded = TRUE,
                                 !.val_db = upper(new_val)], None, 0)

\* LazyValue.__init__
LazyValue_init(val_cached, val_db) ==
    LET l == [loaded |-> val_cached # None, val_cached |-> val_cached,
              val_db |-> val_db, with_cached |-> val_cached # None,
              completed |-> FALSE]
    IN  IF l.loaded THEN LazyValue_set(l, val_cached) ELSE LazyRet("ok", l, None, 0)

\* LazyValueType.validate: the cached value is validated.
LazyValue_validate(l) == LazyRet(StringValidate(l.val_cached), l, None, 0)

\* LazyValueType.validate for a LazyValue class whose payload type is
\* StringValueType(regex = "^[a-z]*$", forbid_none = forbid_none): the chain of
\* the lazy type ends in LazyValueType._validate, which hands the cached
\* value to the payload type; AnyValueType._validate rejects None there when
\* forbid_none is set.
LazyValueType_validate(l, forbid_none) ==
    IF l.val_cached = None /\ forbid_none THEN LazyRet("ValidationError", l, None, 0)
    ELSE LazyValue_validate(l)

CachedArgs == {None, MixBase + 1} \cup LowerStrs

DbArgs == {None} \cup { UpBase + k : k \in LowerStrs }

SetArgs == {None, MixBase + 1} \cup LowerStrs

\* create_value(val_cached, val_db); when the constructor raises there is no
\* new instance.
LazyNew(val_cached, val_db) ==
    LET r == LazyValue_init(val_cached, val_db)
    IN  /\ lz' = IF r.out = "ok" THEN r.l ELSE lz
        /\ lop' = LazyDone("new", val_cached, r.out, val_db, r.fetches)

LazyOp(nm, arg, r) ==
    /\ lz' = [r.l EXCEPT !.completed =
                 \/ @
                 \/ nm \in {"load", "set"} /\ r.out = "ok"
                 \/ nm = "await" /\ r.out = "ok" /\ r.fetches > 0]
    /\ lop' = LazyDone(nm, arg, r.out, r.ret, r.fetches)

LazyLoad == LazyOp("load", None, LazyValue_load(lz))

LazyAwait == LazyOp("await", None, LazyValue_get_or_load(lz))

LazyGet == LazyOp("get", None, LazyValue_get(lz))

LazySet(v) == LazyOp("set", v, LazyValue_set(lz, v))

LazyValidate == LazyOp("validate", None, LazyValue_validate(lz))

\* vt.validate(v), or Field(vt).validate(v), on the value.  With forbid_none a
\* loaded value never caches None: set(None) fails validation first.
LazyTypeValidate(forbid_none) ==
    /\ forbid_none => ~(lz.loaded /\ lz.val_cached = None)
    /\ LazyOp("type_validate", IF forbid_none THEN 1 ELSE None,
              LazyValueType_validate(lz, forbid_none))

InitLazy ==
    /\ lz = NoValue
    /\ lop = LazyDone("new", None, "ok", None, 0)
    /\ fc = NewContainer
    /\ cop = ContDone("new", "", None, "ok", None)
    /\ cache = NoCache
    /\ vop = NoValidation
    /\ reg = NoRegistry
    /\ index = NoIndex
    /\ pool = NewPool
    /\ pop = NoPoolOp
    /\ heap = NewHeap
    /\ hop = NoHeapOp
    /\ feed = NoFeed
    /\ iter = NewIter
    /\ defined = {}
    /\ objs = <<>>
    /\ copied = <<>>
    /\ op = Done("", "new", "", None, "ok")
    /\ reqs = <<>>

LazyOps ==
    \/ \E vc \in CachedArgs : \E vd \in DbArgs : LazyNew(vc, vd)
    \/ \E fn \in BOOLEAN : LazyTypeValidate(fn)
    \/ LazyLoad
    \/ LazyAwait
    \/ LazyGet
    \/ \E v \in SetArgs : LazySet(v)
    \/ LazyValidate

NextLazy == LazyOps /\ UNCHANGED <<docvars, feedvars, contvars, typevars, classvars, connvars, heapvars>>

SpecLazy == InitLazy /\ [][NextLazy]_vars

\* C9 as stated: a LazyValue constructed from a db representation only is
\* unloaded and get() raises NotLoadedError until a load() or a set() has
\* completed on it; one constructed with a cached value is loaded; after a
\* completed load() or set(v), loaded is true and get() returns the fetched
\* and converted value or v; loaded never turns false again.
C9_LoadedOnlyAfterLoadOrSet ==
    [][ /\ (lop'.name = "new" /\ lop'.out = "ok") => (lz'.loaded <=> lop'.arg # None)
        /\ (lop'.name = "get" /\ ~lz.with_cached /\ ~lz.completed) =>
              lop'.out = "NotLoadedError"
        /\ (lop'.name = "load" /\ lop'.out = "ok") =>
              lz'.loaded /\ lz'.val_cached = lower(lz.val_db)
        /\ (lop'.name = "set" /\ lop'.out = "ok") =>
              lz'.loaded /\ lz'.val_cached = lop'.arg
        /\ (lop'.name = "get" /\ lz.loaded) => lop'.out = "ok" /\ lop'.ret = lz.val_cached
        /\ (lop'.name # "new" /\ lz.loaded) => lz'.loaded ]_vars

\* C10: awaiting a loaded LazyValue returns the cached value without a fetch
\* and changes nothing; awaiting an unloaded one performs exactly one fetch
\* and, when the fetch returns, caches the converted result, sets loaded and
\* returns that value; load() fetches every time, also when loaded, and
\* overwrites the cached value with what it fetched.
C10_AwaitFetchesOnlyWhenUnloaded ==
    [][ /\ (lop'.name = "await" /\ lz.loaded) =>
              /\ lop'.fetches = 0 /\ lop'.out = "ok"
              /\ lop'.ret = lz.val_cached
              /\ lz'.val_cached = lz.val_cached /\ lz'.loaded /\ lz'.val_db = lz.val_db
        /\ (lop'.name = "await" /\ ~lz.loaded) =>
              /\ lop'.fetches = 1
              /\ lop'.out = "ok" =>
                    /\ lz'.val_cached = lower(lz.val_db)
                    /\ lz'.loaded
                    /\ lop'.ret = lz'.val_cached
        /\ lop'.name = "load" =>
              /\ lop'.fetches = 1
              /\ lop'.out = "ok" =>
                    /\ lz'.val_cached = lower(lz.val_db)
                    /\ lz'.loaded
                    /\ lop'.ret = lz'.val_cached ]_vars

\* An unloaded value has been awaited: one fetch, and the lower-case form of
\* its db representation came back and is cached.
C10_Witness ==
    /\ lop.name = "await" /\ lop.out = "ok" /\ lop.fetches = 1
    /\ lz.loaded /\ ~lz.with_cached
    /\ lz.val_cached \in LowerStrs
    /\ lz.val_db = UpBase + lz.val_cached
    /\ lop.ret = lz.val_cached

\* C12: validating a field or a container that holds an unloaded lazy value
\* always succeeds and runs no validator on the payload, whatever the payload's
\* value type (a type that rejects None included); once the value is loaded,
\* the payload type's validation is applied to the cached payload and its
\* failure is a ValidationError.
C12_UnloadedLazyIsValid ==
    [][ lop'.name = "type_validate" =>
          IF ~lz.loaded THEN lop'.out = "ok"
          ELSE lop'.out = IF lz.val_cached = None /\ lop'.arg = 1 THEN "ValidationError"
                          ELSE StringValidate(lz.val_cached) ]_vars

(***************************************************************************)
(* The point change feed of one Document, Document.aiter_changes.  Its     *)
(* code is not part of the sources; it is modelled after the description   *)
(* of the reconciliation: an event's new value is compared with the        *)
(* entity's wire values key by key, the differing keys are applied in      *)
(* place without marking anything dirty, and (entity, changed field names, *)
(* event) is yielded; an event without difference is skipped; a deletion   *)
(* unsets stored_in_db and yields a sentinel.  Only keys the new value     *)
(* contains are compared.                                                  *)
(***************************************************************************)
\* The wire value the entity holds for db key k, Unset when it holds none.
WireOf(d, k) ==
    IF \E n \in DeclaredFields(d.cls) : dbname(d.cls, n) = k
    THEN d.vals[CHOOSE n \in DeclaredFields(d.cls) : dbname(d.cls, n) = k]
    ELSE IF k \in UKeys THEN d.und[k] ELSE Unset

\* The field name of db key k.
NameOf(d, k) ==
    IF \E n \in DeclaredFields(d.cls) : dbname(d.cls, n) = k
    THEN CHOOSE n \in DeclaredFields(d.cls) : dbname(d.cls, n) = k
    ELSE k

\* The db keys in which the new value differs from the entity.
changed_keys(d, new_val) ==
    { k \in DbKeys : new_val[k] # Unset /\ new_val[k] # WireOf(d, k) }

\* A variant of the reconciliation that marks the changed fields dirty, as
\* set_dbvalue does.
reconcile_marking(d, new_val) ==
    [ d EXCEPT
        !.vals = [ n \in Names |->
                     IF n \in DeclaredFields(d.cls) /\ dbname(d.cls, n) \in changed_keys(d, new_val)
                     THEN new_val[dbname(d.cls, n)] ELSE @[n] ],
        !.und = [ k \in UKeys |->
                     IF k \in changed_keys(d, new_val) /\ NameOf(d, k) = k
                     THEN new_val[k] ELSE @[k] ],
        !.dirty = @ \cup { NameOf(d, k) : k \in changed_keys(d, new_val) } ]

\* The entity after the differing keys were applied in place.
reconcile(d, new_val) ==
    [ d EXCEPT
        !.vals = [ n \in Names |->
                     IF n \in DeclaredFields(d.cls) /\ dbname(d.cls, n) \in changed_keys(d, new_val)
                     THEN new_val[dbname(d.cls, n)] ELSE @[n] ],
        !.und = [ k \in UKeys |->
                     IF k \in changed_keys(d, new_val) /\ NameOf(d, k) = k
                     THEN new_val[k] ELSE @[k] ] ]

\* The new values the point feed of the document with key 1 may carry.
PointDocs ==
    { doc \in [DbKeys -> {Unset} \cup 1..MaxVal] :
        /\ doc["id"] = 1
        /\ doc["field1"] # Unset
        /\ doc["f2"] = 1
        /\ doc["f1"] = Unset
        /\ doc["u"] \in {Unset, 1} }

Deleted == [k \in DbKeys |-> None]

\* Messages of the point feed: status messages, deletions and new values.
PointMessages ==
    { [has_new |-> FALSE, new_val |-> NoDoc], [has_new |-> TRUE, new_val |-> Deleted] }
    \cup { [has_new |-> TRUE, new_val |-> doc] : doc \in PointDocs }

PointDeliver(m) ==
    /\ Len(feed.msgs) < MaxMsgs
    /\ feed' = [feed EXCEPT !.msgs = Append(@, m)]
    /\ UNCHANGED <<iter, docvars>>

\* The iterator takes the next message and reconciles the entity with it.
PointEvent(o) ==
    /\ Idle
    /\ iter.consumed < Len(feed.msgs)
    /\ LET message == feed.msgs[iter.consumed + 1]
           d == objs[o]
       IN  IF ~message.has_new
           THEN /\ iter' = [iter EXCEPT !.consumed = @ + 1]
                /\ UNCHANGED objs
           ELSE IF message.new_val = Deleted
           THEN /\ objs' = [objs EXCEPT ![o].stored = FALSE]
                /\ iter' = [iter EXCEPT
                              !.consumed = @ + 1,
                              !.yielded = Append(@, [obj |-> "deleted", changed |-> {},
                                                     msg |-> message])]
           ELSE IF changed_keys(d, message.new_val) = {}
           THEN /\ iter' = [iter EXCEPT !.consumed = @ + 1]
                /\ UNCHANGED objs
           ELSE /\ objs' = [objs EXCEPT ![o] = reconcile(d, message.new_val)]
                /\ iter' = [iter EXCEPT
                              !.consumed = @ + 1,
                              !.yielded = Append(@,
                                 [obj |-> o,
                                  changed |-> { NameOf(d, k) : k \in changed_keys(d, message.new_val) },
                                  msg |-> message])]
    /\ UNCHANGED <<feed, defined, copied, op, reqs>>

\* A local write to the entity while the feed is being followed.
PointWrite(o, k, v) == SetItem(o, k, v) /\ UNCHANGED feedvars

InitPoint ==
    /\ defined = {"Doc"}
    /\ objs = [o \in {"d"} |->
                 from_doc("Doc", [NoDoc EXCEPT !["id"] = 1, !["field1"] = 1, !["f2"] = 1], TRUE)]
    /\ copied = <<>>
    /\ op = Done("d", "load", "", 1, "ok")
    /\ reqs = <<>>
    /\ feed = NoFeed
    /\ iter = NewIter
    /\ lz = NoValue
    /\ lop = LazyDone("", None, "ok", None, 0)
    /\ fc = NewContainer
    /\ cop = ContDone("new", "", None, "ok", None)
    /\ cache = NoCache
    /\ vop = NoValidation
    /\ reg = NoRegistry
    /\ index = NoIndex
    /\ pool = NewPool
    /\ pop = NoPoolOp
    /\ heap = NewHeap
    /\ hop = NoHeapOp

PointOps ==
    \/ \E m \in PointMessages : PointDeliver(m)
    \/ PointEvent("d")
    \/ \E k \in {"f1", "u"} : PointWrite("d", k, 1)

NextPoint == PointOps /\ UNCHANGED <<lazyvars, contvars, typevars, classvars, connvars, heapvars>>

SpecPoint == InitPoint /\ [][NextPoint]_vars

\* C7: an event whose new value differs from the entity's wire values in a
\* non-empty set F of db keys updates the same instance so that exactly the
\* fields of F take the new values, leaves the dirty set and every other
\* field as they were and yields the entity, the names of the fields of F and
\* the event; an event without difference yields nothing and changes
\* nothing; events are taken in arrival order.
C7_PointFeedReconciles ==
    [][ (iter'.consumed # iter.consumed) =>
          LET m == feed.msgs[iter'.consumed]
              F == { k \in DbKeys : m.new_val[k] # Unset /\ m.new_val[k] # WireOf(objs["d"], k) }
          IN  /\ iter'.consumed = iter.consumed + 1
              /\ (m.has_new /\ m.new_val # Deleted /\ F # {}) =>
                    /\ \A k \in F : WireOf(objs'["d"], k) = m.new_val[k]
                    /\ \A k \in DbKeys \ F : WireOf(objs'["d"], k) = WireOf(objs["d"], k)
                    /\ objs'["d"].dirty = objs["d"].dirty
                    /\ objs'["d"].stored = objs["d"].stored
                    /\ iter'.yielded = Append(iter.yielded,
                          [obj |-> "d", changed |-> { NameOf(objs["d"], k) : k \in F }, msg |-> m])
              /\ (m.has_new /\ m.new_val # Deleted /\ F = {}) =>
                    /\ iter'.yielded = iter.yielded
                    /\ objs' = objs ]_vars

\* Two update events in a row were reconciled: the second was diffed against
\* what the first left, while a local write was still dirty.
C7_Witness ==
    /\ Len(iter.yielded) >= 2
    /\ iter.yielded[1].obj = "d" /\ iter.yielded[2].obj = "d"
    /\ iter.yielded[1].changed = {"f1"}
    /\ iter.yielded[2].changed = {"u"}
    /\ objs["d"].dirty # {}

(***************************************************************************)
(* FieldContainer and Field (values_and_valuetypes/field_container.py,     *)
(* field.py), for a container class with                                   *)
(*   f1 = Field(name = "field1"),                                          *)
(*   f2 = Field(IntValueType(), required = True, default = 1),             *)
(*   f3 = Field(IntValueType(), required = True),  f1a = FieldAlias(f1),   *)
(*   f_swapcase = Field(SwapCaseValueType(), default = "").                *)
(* Integers are 1..MaxVal; UpBase + k and MixBase + k are two strings,     *)
(* each the swapcase() of the other, and UpBase is the empty string.  A    *)
(* view is the sequence its iteration yields, the undeclared keys in a     *)
(* fixed order.                                                            *)
(***************************************************************************)
FCFields ==
    [ f1 |-> [dbname |-> "field1", required |-> FALSE, default |-> None, int |-> FALSE, str |-> FALSE],
      f2 |-> [dbname |-> "f2", required |-> TRUE, default |-> 1, int |-> TRUE, str |-> FALSE],
      f3 |-> [dbname |-> "f3", required |-> TRUE, default |-> None, int |-> TRUE, str |-> FALSE],
      f_swapcase |-> [dbname |-> "f_swapcase", required |-> FALSE, default |-> UpBase,
                      int |-> FALSE, str |-> TRUE] ]

\* isinstance(v, str)
IsStr(v) == v = UpBase \/ v \in (UpBase + 1)..(UpBase + MaxVal) \/ v \in (MixBase + 1)..(MixBase + MaxVal)

\* str.swapcase
swapcase(v) ==
    IF v \in (UpBase + 1)..(UpBase + MaxVal) THEN v - UpBase + MixBase
    ELSE IF v \in (MixBase + 1)..(MixBase + MaxVal) THEN v - MixBase + UpBase
    ELSE v

Range(sq) == { sq[i] : i \in 1..Len(sq) }

ContRet(out, c, ret) == [out |-> out, c |-> c, ret |-> ret]

\* FieldContainer.has_field_attr and the getattr that follows it: the name of
\* the Field found, the target's name for a FieldAlias, "" for no such
\* attribute.
FC_attr(k) == IF k = "f1a" THEN "f1" ELSE IF k \in DOMAIN FCFields THEN k ELSE ""

\* A variant of Field.validate that never asks the value type.
Field_validate_required(n, v) ==
    IF v = None /\ FCFields[n].required THEN "ValidationError" ELSE "ok"

\* Field.validate: the required check, else the value type's validate
\* (TypedValueType._validate for IntValueType, nothing for AnyValueType).
Field_validate(n, v) ==
    IF v = None /\ FCFields[n].required THEN "ValidationError"
    ELSE IF FCFields[n].int /\ v # None /\ v \notin 1..MaxVal THEN "ValidationError"
    ELSE IF FCFields[n].str /\ v # None /\ ~IsStr(v) THEN "ValidationError"
    ELSE "ok"

\* Field.__get__
Field_get(c, n) == IF c.vals[n] = Unset THEN FCFields[n].default ELSE c.vals[n]

\* A variant of Field.__set__ that stores before it validates.
Field_set_then_validate(c, n, v, mark_updated) ==
    ContRet(Field_validate(n, v),
            [c EXCEPT !.vals[n] = v, !.dirty = IF mark_updated THEN @ \cup {n} ELSE @], None)

\* Field.__set__
Field_set(c, n, v, mark_updated) ==
    IF Field_validate(n, v) # "ok" THEN ContRet("ValidationError", c, None)
    ELSE ContRet("ok", [c EXCEPT !.vals[n] = v,
                                 !.dirty = IF mark_updated THEN @ \cup {n} ELSE @], None)

\* A variant of Field.__delete__ that marks the field whether or not a value
\* was stored.
Field_delete_marking(c, n) == [c EXCEPT !.vals[n] = Unset, !.dirty = @ \cup {n}]

\* Field.__delete__
Field_delete(c, n) ==
    IF c.vals[n] = Unset THEN c
    ELSE [c EXCEPT !.vals[n] = Unset, !.dirty = @ \cup {n}]

\* FieldContainer.keys(which), as the sequence KeysView.__iter__ chains.
FC_keys(c, which) ==
    (IF which # UNDECLARED_ONLY THEN <<"f1", "f2", "f3", "f_swapcase">> ELSE <<>>)
    \o (IF which # DECLARED_ONLY
        THEN SelectSeq(<<"f1", "field1", "u">>, LAMBDA k : c.und[k] # Unset)
        ELSE <<>>)

\* FieldContainer.dbkeys(), as the set a membership test ranges over.
FC_dbkeys(c) ==
    { FCFields[n].dbname : n \in DOMAIN FCFields } \cup { k \in DOMAIN c.und : c.und[k] # Unset }

\* FieldContainer.len(which): KeysView.__len__ adds the two dict sizes.
FC_len(c, which) ==
    (IF which # UNDECLARED_ONLY THEN Cardinality(DOMAIN FCFields) ELSE 0)
    + (IF which # DECLARED_ONLY THEN Cardinality({ k \in DOMAIN c.und : c.und[k] # Unset }) ELSE 0)

\* FieldContainer.__getitem__
FC_getitem(c, k) ==
    IF FC_attr(k) # "" THEN ContRet("ok", c, Field_get(c, FC_attr(k)))
    ELSE IF k \in DOMAIN c.und /\ c.und[k] # Unset THEN ContRet("ok", c, c.und[k])
    ELSE ContRet("KeyError", c, None)

\* FieldContainer.items(which): ItemsView zips the keys with get(k) of each.
FC_items(c, which) ==
    [ i \in 1..Len(FC_keys(c, which)) |->
        <<FC_keys(c, which)[i], FC_getitem(c, FC_keys(c, which)[i]).ret>> ]

\* A variant of FieldContainer.__setitem__ without the db-name check.
FC_setitem_unchecked(c, k, v) ==
    IF FC_attr(k) # "" THEN Field_set(c, FC_attr(k), v, TRUE)
    ELSE ContRet("ok", [c EXCEPT !.und[k] = v, !.dirty = @ \cup {k}], None)

\* FieldContainer.__setitem__
FC_setitem(c, k, v) ==
    IF FC_attr(k) # "" THEN Field_set(c, FC_attr(k), v, TRUE)
    ELSE IF c.und[k] = Unset /\ k \in FC_dbkeys(c)
    THEN ContRet("AlreadyExistsError", c, None)
    ELSE ContRet("ok", [c EXCEPT !.und[k] = v, !.dirty = @ \cup {k}], None)

\* val_type.dbval_to_pyval of field n: swapcase() for SwapCaseValueType, an
\* AttributeError on what has no swapcase; the argument for AnyValueType and
\* IntValueType.
Field_dbval_to_pyval(n, dbval) ==
    IF ~FCFields[n].str THEN [out |-> "ok", val |-> dbval]
    ELSE IF IsStr(dbval) THEN [out |-> "ok", val |-> swapcase(dbval)]
    ELSE [out |-> "AttributeError", val |-> None]

\* val_type.pyval_to_dbval of field n: the same method for SwapCaseValueType.
Field_pyval_to_dbval(n, pyval) == Field_dbval_to_pyval(n, pyval)

\* Field._store_from_doc
Field_store_from_doc(c, n, dbval, mark_updated) ==
    LET v == Field_dbval_to_pyval(n, dbval)
    IN  IF v.out # "ok" THEN ContRet(v.out, c, None)
        ELSE Field_set(c, n, v.val, mark_updated)

\* Field._do_convert_to_doc: validate the value read, then convert it.
Field_do_convert_to_doc(c, n) ==
    IF Field_validate(n, Field_get(c, n)) # "ok" THEN ContRet("ValidationError", c, None)
    ELSE LET d == Field_pyval_to_dbval(n, Field_get(c, n))
         IN  ContRet(d.out, c, d.val)

\* A variant of FieldContainer.set_dbvalue that writes the db value as it is.
FC_set_dbvalue_raw(c, k, dbvalue, mark_updated) ==
    IF FC_attr(k) # "" THEN Field_set(c, FC_attr(k), dbvalue, mark_updated)
    ELSE FC_setitem(c, k, dbvalue)

\* FieldContainer.set_dbvalue
FC_set_dbvalue(c, k, dbvalue, mark_updated) ==
    IF FC_attr(k) # "" THEN Field_store_from_doc(c, FC_attr(k), dbvalue, mark_updated)
    ELSE FC_setitem(c, k, dbvalue)

\* FieldContainer.get_dbvalue
FC_get_dbvalue(c, k, default) ==
    IF FC_attr(k) # "" THEN Field_do_convert_to_doc(c, FC_attr(k))
    ELSE IF k \in DOMAIN c.und /\ c.und[k] # Unset THEN ContRet("ok", c, c.und[k])
    ELSE ContRet("ok", c, default)

\* Mapping.get: self[k], the default on KeyError.
FC_get(c, k, default) ==
    IF FC_getitem(c, k).out = "KeyError" THEN ContRet("ok", c, default) ELSE FC_getitem(c, k)

\* FieldContainer.__delitem__
FC_delitem(c, k) ==
    IF FC_attr(k) # "" THEN ContRet("ok", Field_delete(c, FC_attr(k)), None)
    ELSE IF c.und[k] = Unset THEN ContRet("KeyError", c, None)
    ELSE ContRet("ok", [c EXCEPT !.und[k] = Unset, !.dirty = @ \cup {k}], None)

\* FieldContainer.clear(which): del self[k] for every k of list(keys(which)).
RECURSIVE FC_clear(_, _)
FC_clear(c, ks) ==
    IF ks = <<>> THEN ContRet("ok", c, None)
    ELSE LET r == FC_delitem(c, Head(ks))
         IN  IF r.out # "ok" THEN r ELSE FC_clear(r.c, Tail(ks))

\* MutableMapping.update(other): self[k] = v for every item of other, in
\* order, until one raises.
RECURSIVE FC_update(_, _)
FC_update(c, ps) ==
    IF ps = <<>> THEN ContRet("ok", c, None)
    ELSE LET r == FC_setitem(c, Head(ps)[1], Head(ps)[2])
         IN  IF r.out # "ok" THEN r ELSE FC_update(r.c, Tail(ps))

\* The keys of a document in the order its items() yields them; a document
\* is a function on these keys, Unset for a key it does not have.
DocKeys == <<"field1", "f1", "f2", "f3", "f_swapcase", "u">>

\* cls._dbname_to_field_name.get(dbkey, None), "" for None
FC_dbname_to_field_name(dbkey) ==
    IF \E n \in DOMAIN FCFields : FCFields[n].dbname = dbkey
    THEN CHOOSE n \in DOMAIN FCFields : FCFields[n].dbname = dbkey
    ELSE ""

\* A variant of the loop of from_doc that stores every value with marking.
RECURSIVE FC_from_doc_marking(_, _, _)
FC_from_doc_marking(c, doc, ks) ==
    IF ks = <<>> THEN ContRet("ok", c, None)
    ELSE IF doc[Head(ks)] = Unset THEN FC_from_doc_marking(c, doc, Tail(ks))
    ELSE IF FC_dbname_to_field_name(Head(ks)) # ""
    THEN LET r == Field_store_from_doc(c, FC_dbname_to_field_name(Head(ks)), doc[Head(ks)], TRUE)
         IN  IF r.out # "ok" THEN r ELSE FC_from_doc_marking(r.c, doc, Tail(ks))
    ELSE FC_from_doc_marking([c EXCEPT !.und[Head(ks)] = doc[Head(ks)]], doc, Tail(ks))

\* The loop of FieldContainer.from_doc: a db key of _dbname_to_field_name is
\* written to its field through Field._store_from_doc without marking, any
\* other key becomes an undeclared field; the first conversion or validation
\* that fails raises.
RECURSIVE FC_from_doc_items(_, _, _)
FC_from_doc_items(c, doc, ks) ==
    IF ks = <<>> THEN ContRet("ok", c, None)
    ELSE IF doc[Head(ks)] = Unset THEN FC_from_doc_items(c, doc, Tail(ks))
    ELSE IF FC_dbname_to_field_name(Head(ks)) # ""
    THEN LET r == Field_store_from_doc(c, FC_dbname_to_field_name(Head(ks)), doc[Head(ks)], FALSE)
         IN  IF r.out # "ok" THEN r ELSE FC_from_doc_items(r.c, doc, Tail(ks))
    ELSE FC_from_doc_items([c EXCEPT !.und[Head(ks)] = doc[Head(ks)]], doc, Tail(ks))

\* FieldContainer.from_doc
FC_from_doc(doc) ==
    LET r == FC_from_doc_items(NewContainer, doc, DocKeys)
    IN  IF r.out = "ok" THEN r ELSE ContRet(r.out, NewContainer, None)

\* FieldContainer.validate_field
FC_validate_field(c, k) ==
    IF FC_attr(k) = "" THEN ContRet("ValueError", c, None)
    ELSE ContRet(Field_validate(FC_attr(k), Field_get(c, FC_attr(k))), c, None)

ContKeys == {"f1", "f2", "f3", "f1a", "field1", "u"}

\* The values written to key k: None, integers and a string for the typed
\* fields, None and an integer for the others.
ContVals(k) ==
    IF k = "f2" THEN {None, UpBase + 1} \cup (1..MaxVal)
    ELSE IF k = "f3" THEN {None, 1, UpBase + 1}
    ELSE IF FC_attr(k) = "f1" THEN {None, 1}
    ELSE {1}

\* The documents from_doc is given: db keys with a value, Unset for a key the
\* document does not have.
ContDocs ==
    { doc \in [Range(DocKeys) -> {Unset, 1, UpBase + 1}] :
        /\ doc["field1"] # UpBase + 1 /\ doc["f1"] # UpBase + 1
        /\ doc["u"] = Unset /\ doc["f3"] = doc["f2"] /\ doc["f_swapcase"] = Unset }

\* One operation on the container; an operation that raises before it has an
\* instance (from_doc) leaves the instance alone.
ContOp(nm, key, val, r) ==
    /\ fc' = r.c
    /\ cop' = ContDone(nm, key, val, r.out, r.ret)

InitCont ==
    /\ fc = NewContainer
    /\ cop = ContDone("new", "", None, "ok", None)
    /\ cache = NoCache
    /\ vop = NoValidation
    /\ reg = NoRegistry
    /\ index = NoIndex
    /\ pool = NewPool
    /\ pop = NoPoolOp
    /\ heap = NewHeap
    /\ hop = NoHeapOp
    /\ lz = NoValue
    /\ lop = LazyDone("", None, "ok", None, 0)
    /\ feed = NoFeed
    /\ iter = NewIter
    /\ defined = {}
    /\ objs = <<>>
    /\ copied = <<>>
    /\ op = Done("", "new", "", None, "ok")
    /\ reqs = <<>>

ContOps ==
    \/ ContOp("new", "", None, ContRet("ok", NewContainer, None))
    \/ \E doc \in ContDocs :
          LET r == FC_from_doc(doc)
          IN  ContOp("from_doc", "", None, IF r.out = "ok" THEN r ELSE ContRet(r.out, fc, None))
    \/ \E k \in {"f1", "f1a", "f2", "u"} : ContOp("getitem", k, None, FC_getitem(fc, k))
    \/ \E k \in ContKeys : \E v \in ContVals(k) : ContOp("setitem", k, v, FC_setitem(fc, k, v))
    \/ \E k \in {"f1", "f2", "field1"} : \E v \in ContVals(k) : \E m \in BOOLEAN :
          ContOp(IF m THEN "set_dbvalue" ELSE "set_dbvalue_unmarked", k, v,
                 FC_set_dbvalue(fc, k, v, m))
    \/ \E k \in {"field1", "u", "f3"} : \E v \in {1, UpBase + 1} :
          ContOp("update", k, v, FC_update(fc, << <<"f1", 1>>, <<k, v>> >>))
    \/ \E k \in ContKeys : ContOp("delitem", k, None, FC_delitem(fc, k))
    \/ \E w \in Whichs : ContOp("clear", "", w, FC_clear(fc, FC_keys(fc, w)))
    \/ \E k \in {"f2", "f3", "f1a", "u"} : ContOp("validate_field", k, None, FC_validate_field(fc, k))
    \/ \E k \in {"f1", "f2", "f3"} : \E v \in ContVals("f2") :
          ContOp("Field.validate", k, v, ContRet(Field_validate(k, v), fc, None))

NextCont == ContOps /\ UNCHANGED <<docvars, feedvars, lazyvars, typevars, classvars, connvars, heapvars>>

SpecCont == InitCont /\ [][NextCont]_vars

(***************************************************************************)
(* The same container class under the operations that convert between the *)
(* value of a field and its database representation.                       *)
(***************************************************************************)
ConvKeys == {"f_swapcase", "f2", "field1", "u"}

\* The db values written to key k: None, an integer and a string for the
\* declared fields, an integer for the others.
ConvVals(k) == IF FC_attr(k) # "" THEN {None, 1, UpBase + 1} ELSE {1}

\* The documents from_doc is given here: the db-name field1; the key f1,
\* which is no db-name, together with an undeclared key; a string for the
\* integer field f2; None or a string for f_swapcase.
ConvDocs ==
    { [field1 |-> a, f1 |-> b, f2 |-> c, f3 |-> Unset, f_swapcase |-> d,
       u |-> IF b = Unset THEN Unset ELSE UpBase + 1] :
        a \in {Unset, 1}, b \in {Unset, 1}, c \in {Unset, UpBase + 1},
        d \in {Unset, None, UpBase + 1} }

ConvOp(nm, key, val, doc, r) ==
    /\ fc' = r.c
    /\ cop' = [ContDone(nm, key, val, r.out, r.ret) EXCEPT !.doc = doc]

InitConv ==
    /\ fc = NewContainer
    /\ cop = ContDone("new", "", None, "ok", None)
    /\ cache = NoCache
    /\ vop = NoValidation
    /\ reg = NoRegistry
    /\ index = NoIndex
    /\ pool = NewPool
    /\ pop = NoPoolOp
    /\ heap = NewHeap
    /\ hop = NoHeapOp
    /\ lz = NoValue
    /\ lop = LazyDone("", None, "ok", None, 0)
    /\ feed = NoFeed
    /\ iter = NewIter
    /\ defined = {}
    /\ objs = <<>>
    /\ copied = <<>>
    /\ op = Done("", "new", "", None, "ok")
    /\ reqs = <<>>

ConvOps ==
    \/ ConvOp("new", "", None, NoContDoc, ContRet("ok", NewContainer, None))
    \/ \E doc \in ConvDocs :
          LET r == FC_from_doc(doc)
          IN  ConvOp("from_doc", "", None, doc, IF r.out = "ok" THEN r ELSE ContRet(r.out, fc, None))
    \/ \E k \in ConvKeys : \E x \in ConvVals(k) : \E m \in BOOLEAN :
          ConvOp(IF m THEN "set_dbvalue" ELSE "set_dbvalue_unmarked", k, x, NoContDoc,
                 FC_set_dbvalue(fc, k, x, m))
    \/ \E k \in ConvKeys : \E default \in {None, 1} :
          ConvOp("get_dbvalue", k, default, NoContDoc, FC_get_dbvalue(fc, k, default))
    \/ \E k \in ConvKeys : \E default \in {None, 1} :
          ConvOp("get", k, default, NoContDoc, FC_get(fc, k, default))
    \/ ConvOp("setitem", "f_swapcase", None, NoContDoc, FC_setitem(fc, "f_swapcase", None))
    \/ \E k \in {"f_swapcase", "u"} : ConvOp("delitem", k, None, NoContDoc, FC_delitem(fc, k))

NextConv == ConvOps /\ UNCHANGED <<docvars, feedvars, lazyvars, typevars, classvars, connvars, heapvars>>

SpecConv == InitConv /\ [][NextConv]_vars

\* What dbval_to_pyval, and pyval_to_dbval, of field n make of a string x:
\* the case-swapped string for f_swapcase, x itself for the other fields.
AsStored(n, x) ==
    IF n # "f_swapcase" THEN x
    ELSE IF x = UpBase + 1 THEN MixBase + 1
    ELSE IF x = MixBase + 1 THEN UpBase + 1
    ELSE x

WritesField(k) ==
    /\ cop'.name \in {"setitem", "set_dbvalue", "set_dbvalue_unmarked"}
    /\ cop'.key = k
    /\ FC_attr(k) # ""

TypeRejects(n, v) ==
    \/ FCFields[n].int /\ v # None /\ v \notin 1..MaxVal
    \/ FCFields[n].str /\ v # None /\ ~IsStr(v)

\* C13: a field declared required fails validation exactly when its value is
\* None, or it is unset and has no non-None default, and never otherwise, for
\* every value given to Field.validate and for validate_field in every
\* container state.
C13_RequiredFailsOnlyOnNone ==
    [][ \A n \in {"f2", "f3"} :
          /\ (cop'.name = "Field.validate" /\ cop'.key = n)
             => (cop'.out = "ValidationError" <=> cop'.val = None)
          /\ (cop'.name = "validate_field" /\ cop'.key = n)
             => (cop'.out = "ValidationError"
                   <=> \/ fc.vals[n] = None
                       \/ fc.vals[n] = Unset /\ FCFields[n].default = None) ]_vars

\* C13, amended: a required field fails validation exactly when its value is
\* None, or it is unset and has no non-None default, or its value type rejects
\* the value.
C13_RequiredFailsOnNoneOrType ==
    [][ \A n \in {"f2", "f3"} :
          /\ (cop'.name = "Field.validate" /\ cop'.key = n)
             => (cop'.out = "ValidationError" <=> (cop'.val = None \/ TypeRejects(n, cop'.val)))
          /\ (cop'.name = "validate_field" /\ cop'.key = n)
             => (cop'.out = "ValidationError"
                   <=> \/ fc.vals[n] = None
                       \/ fc.vals[n] = Unset /\ FCFields[n].default = None
                       \/ fc.vals[n] # Unset /\ TypeRejects(n, fc.vals[n])) ]_vars

\* Field.validate of the required integer field f2 has rejected a string.
C13_Witness ==
    /\ cop.name = "Field.validate" /\ cop.key = "f2"
    /\ cop.val = UpBase + 1
    /\ cop.out = "ValidationError"

\* C17: writing to a declared field a value that fails the field's validation
\* (rejected by its value type, or None on a required field) raises
\* ValidationError and leaves stored values and dirty set unchanged; a
\* successful write stores the value and adds the field's name to the dirty
\* set, unless marking is suppressed, and then the dirty set is unchanged.
C17_WriteValidatesThenStores ==
    [][ \A k \in ContKeys : WritesField(k) =>
          LET n == FC_attr(k)
              v == cop'.val
          IN  IF (v = None /\ FCFields[n].required) \/ TypeRejects(n, v)
              THEN cop'.out = "ValidationError" /\ fc' = fc
              ELSE /\ cop'.out = "ok"
                   /\ fc'.vals = [fc.vals EXCEPT ![n] = v]
                   /\ fc'.und = fc.und
                   /\ fc'.dirty = IF cop'.name = "set_dbvalue_unmarked"
                                  THEN fc.dirty ELSE fc.dirty \cup {n} ]_vars

\* A rejected write to f2, whose value was stored without marking, has left
\* the value and the empty dirty set as they were.
C17_Witness ==
    /\ cop.name = "setitem" /\ cop.key = "f2" /\ cop.val = UpBase + 1
    /\ cop.out = "ValidationError"
    /\ fc.vals["f2"] = MaxVal
    /\ fc.dirty = {}

\* A declared field is deleted through key k.
DeletesField(k) == cop'.name = "delitem" /\ cop'.key = k /\ FC_attr(k) # ""

\* C18: deleting a declared field (by attribute, by key or through an alias),
\* in any container state, makes the reads that follow return the default and
\* marks the field dirty; the name stays in the key set and len() is
\* unchanged; a second deletion leaves the read value at the default.
C18_DeleteAlwaysMarks ==
    [][ \A k \in ContKeys : DeletesField(k) =>
          /\ cop'.out = "ok"
          /\ FC_getitem(fc', k).ret = FCFields[FC_attr(k)].default
          /\ FC_attr(k) \in fc'.dirty
          /\ FC_keys(fc', ALL) = FC_keys(fc, ALL)
          /\ FC_len(fc', ALL) = FC_len(fc, ALL) ]_vars

\* C18, amended: the field is marked dirty when it held a stored value, and
\* the dirty set is unchanged when it did not; a read changes nothing.
C18_DeleteRevertsToDefault ==
    [][ /\ \A k \in ContKeys : DeletesField(k) =>
             /\ cop'.out = "ok"
             /\ FC_getitem(fc', k).ret = FCFields[FC_attr(k)].default
             /\ fc'.dirty = IF fc.vals[FC_attr(k)] # Unset
                            THEN fc.dirty \cup {FC_attr(k)} ELSE fc.dirty
             /\ FC_keys(fc', ALL) = FC_keys(fc, ALL)
             /\ FC_len(fc', ALL) = FC_len(fc, ALL)
        /\ cop'.name = "getitem" => fc' = fc ]_vars

\* The unset field f1 was deleted through its alias in a container with other
\* marks: f1 reads as its default and is not marked.
C18_Witness ==
    /\ cop.name = "delitem" /\ cop.key = "f1a" /\ cop.out = "ok"
    /\ fc.vals["f1"] = Unset
    /\ fc.dirty = {"f2"}
    /\ fc.vals["f2"] = MaxVal

DbNames == { FCFields[n].dbname : n \in DOMAIN FCFields }

\* C19: setting an undeclared key that is not present and equals the db-name
\* of a declared field raises AlreadyExistsError and changes neither values,
\* undeclared fields nor dirty set; after any sequence of item assignment,
\* set_dbvalue, update, deletion and clear no undeclared key equals the
\* db-name of a declared field.
C19_NoUndeclaredDbName ==
    [][ /\ \A k \in ContKeys :
             ( /\ cop'.name \in {"setitem", "set_dbvalue", "set_dbvalue_unmarked"}
               /\ cop'.key = k /\ FC_attr(k) = ""
               /\ fc.und[k] = Unset /\ k \in DbNames )
             => cop'.out = "AlreadyExistsError" /\ fc' = fc
        /\ \A k \in DOMAIN fc'.und : fc'.und[k] # Unset => (k \notin DbNames \/ FC_attr(k) # "") ]_vars

\* update({"f1": 1, "field1": 1}) has set f1 and failed on field1.
C19_Witness ==
    /\ cop.name = "update" /\ cop.key = "field1"
    /\ cop.out = "AlreadyExistsError"
    /\ fc.vals["f1"] = 1 /\ "f1" \in fc.dirty
    /\ fc.und["field1"] = Unset


\* C20: keys(ALL) is the disjoint union of keys(DECLARED_ONLY), which is the
\* declared field names, and keys(UNDECLARED_ONLY); no key occurs twice in
\* keys(ALL); len(which) is the number of distinct keys of keys(which);
\* items(which) ranges over exactly those keys.
C20_KeysAreDisjointUnion ==
    /\ Range(FC_keys(fc, DECLARED_ONLY)) = DOMAIN FCFields
    /\ FC_keys(fc, ALL) = FC_keys(fc, DECLARED_ONLY) \o FC_keys(fc, UNDECLARED_ONLY)
    /\ Range(FC_keys(fc, DECLARED_ONLY)) \cap Range(FC_keys(fc, UNDECLARED_ONLY)) = {}
    /\ \A w \in Whichs :
         /\ \A i, j \in 1..Len(FC_keys(fc, w)) : i # j => FC_keys(fc, w)[i] # FC_keys(fc, w)[j]
         /\ FC_len(fc, w) = Cardinality(Range(FC_keys(fc, w)))
         /\ { it[1] : it \in Range(FC_items(fc, w)) } = Range(FC_keys(fc, w))

(***************************************************************************)
(* Value types (values_and_valuetypes/base_types.py, simple_types.py,      *)
(* simple_containers.py, FieldContainerValueType, LazyValueType) and the   *)
(* Validatable base class (validatable.py).  A value is <<tag, payload>>:  *)
(* "none", "int" with an integer, "str" with a string in the encoding of   *)
(* the lazy values, "tuple" and "list" with a sequence of values, "set"    *)
(* with a set, "dict" with a set of <<key, value>> pairs, "nt" with the    *)
(* items of a namedtuple with the fields x and y, "fc" with a              *)
(* FieldContainer, "lazy" with a LazyValue and the identity of the         *)
(* object, "doc" with the dict from_doc and to_doc exchange.               *)
(***************************************************************************)
MaxChain == 4

PyInt(n) == <<"int", n>>

PyStr(n) == <<"str", n>>

VT(kind, cls, forbid_none, extras) ==
    [kind |-> kind, cls |-> cls, forbid_none |-> forbid_none, extras |-> extras]

\* The instances validated: value types as the unit tests construct them
\* (element type IntValueType, keys StringValueType(regex = "^[a-z]*$"), two
\* IntValueType items for the namedtuple), and instances of the Validatable
\* subclass IntValidatable: a with an extra validator, s with the extra
\* validators of the StopValidation test, b without any.
Instances ==
    [ any        |-> VT("ValueType", "AnyValueType", FALSE, <<>>),
      any_forbid |-> VT("ValueType", "AnyValueType", TRUE, <<>>),
      any_custom |-> VT("ValueType", "AnyValueType", FALSE, <<"validate_int", "validate_even">>),
      any_stop   |-> VT("ValueType", "AnyValueType", FALSE, <<"validate_odd", "validate_3">>),
      int        |-> VT("ValueType", "IntValueType", FALSE, <<>>),
      string     |-> VT("ValueType", "StringValueType", FALSE, <<>>),
      tuple      |-> VT("ValueType", "TupleValueType", FALSE, <<>>),
      list       |-> VT("ValueType", "ListValueType", FALSE, <<>>),
      list_forbid |-> VT("ValueType", "ListValueType", TRUE, <<>>),
      set        |-> VT("ValueType", "SetValueType", FALSE, <<>>),
      dict       |-> VT("ValueType", "DictValueType", FALSE, <<>>),
      namedtuple |-> VT("ValueType", "NamedTupleValueType", FALSE, <<>>),
      fieldcontainer |-> VT("ValueType", "FieldContainerValueType", FALSE, <<>>),
      lazy       |-> VT("ValueType", "LazyValueType", FALSE, <<>>),
      a          |-> VT("Validatable", "IntValidatable", FALSE, <<"odd_validator">>),
      b          |-> VT("Validatable", "IntValidatable", FALSE, <<>>),
      s          |-> VT("Validatable", "IntValidatable", FALSE, <<"validate_odd", "validate_3">>) ]

ElementContainers == {"TupleValueType", "ListValueType", "SetValueType"}

\* _find_methods_in_reverse_mro("_validate") with no cache entry: the
\* _validate methods defined along the MRO, the most general class first.
reverse_mro(cls) ==
    CASE cls = "AnyValueType" -> <<"AnyValueType">>
      [] cls = "IntValueType" -> <<"AnyValueType", "TypedValueType">>
      [] cls \in ElementContainers ->
            <<"AnyValueType", "TypedValueType", "ElementContainerValueType">>
      [] cls = "IntValidatable" -> <<"Validatable", "IntValidatable">>
      [] OTHER -> <<"AnyValueType", "TypedValueType", cls>>

\* _find_methods_in_reverse_mro: the cached list when the class has one.  ch
\* holds the lists of the Validatable classes; the list of a value type
\* class is never changed after it is computed and is not kept.
find_methods(ch, cls) ==
    IF cls \in DOMAIN ch /\ ch[cls] # <<>> THEN ch[cls] ELSE reverse_mro(cls)

\* isinstance(val, _val_instance_of); a namedtuple is a tuple.
IsInstance(v, cls) ==
    CASE cls = "IntValueType" -> v[1] = "int"
      [] cls = "StringValueType" -> v[1] = "str"
      [] cls = "TupleValueType" -> v[1] \in {"tuple", "nt"}
      [] cls = "ListValueType" -> v[1] = "list"
      [] cls = "SetValueType" -> v[1] = "set"
      [] cls = "DictValueType" -> v[1] = "dict"
      [] cls = "NamedTupleValueType" -> v[1] = "nt"
      [] cls = "FieldContainerValueType" -> v[1] = "fc"
      [] cls = "LazyValueType" -> v[1] = "lazy"
      [] OTHER -> TRUE

\* The elements an iteration over a tuple, list or set yields.
Elems(v) == IF v[1] = "set" THEN v[2] ELSE Range(v[2])

\* The outcome of the first of the nested validations that raises.
FirstRaised(outs) == IF outs \subseteq {"ok"} THEN "ok" ELSE CHOOSE o \in outs : o # "ok"

RECURSIVE validator(_, _, _, _), run_validators(_, _, _, _)

\* AnyValueType.validate: the class's validators, then a copy of the list
\* with the extra validators appended; StopValidation ends the loop.  ran
\* is the validators called, in order.
AnyValueType_validate(i, v, ch) ==
    LET r == run_validators(find_methods(ch, i.cls) \o i.extras, i, v, ch)
    IN  [out |-> IF r.out = "StopValidation" THEN "ok" ELSE r.out, ran |-> r.ran]

\* One validator called with (self, val): "ok" when it returns, else what
\* it raises.
validator(name, i, v, ch) ==
    CASE name = "AnyValueType" ->
            IF v = PyNone /\ i.forbid_none THEN "ValidationError" ELSE "ok"
      [] name = "TypedValueType" ->
            IF v # PyNone /\ ~IsInstance(v, i.cls) THEN "ValidationError" ELSE "ok"
      [] name = "StringValueType" -> StringValidate(IF v = PyNone THEN None ELSE v[2])
      [] name = "ElementContainerValueType" ->
            IF v = PyNone THEN "TypeError"
            ELSE FirstRaised({ AnyValueType_validate(Instances.int, x, ch).out : x \in Elems(v) })
      [] name = "DictValueType" ->
            IF v = PyNone THEN "AttributeError"
            ELSE FirstRaised({ IF AnyValueType_validate(Instances.string, kv[1], ch).out # "ok"
                               THEN AnyValueType_validate(Instances.string, kv[1], ch).out
                               ELSE AnyValueType_validate(Instances.int, kv[2], ch).out
                               : kv \in v[2] })
      [] name = "NamedTupleValueType" ->
            IF v = PyNone THEN "TypeError"
            ELSE FirstRaised({ AnyValueType_validate(Instances.int, x, ch).out : x \in Range(v[2]) })
      [] name = "FieldContainerValueType" ->
            IF v = PyNone THEN "AttributeError"
            ELSE FirstRaised({ FC_validate_field(v[2], k).out :
                                 k \in { n \in v[2].dirty : FC_attr(n) # "" } })
      [] name = "LazyValueType" ->
            IF v = PyNone THEN "AttributeError" ELSE LazyValue_validate(v[2].l).out
      [] name = "validate_int" -> IF v[1] # "int" THEN "ValidationError" ELSE "ok"
      [] name = "validate_even" -> IF v[2] % 2 # 0 THEN "ValidationError" ELSE "ok"
      [] name = "validate_odd" -> IF v[2] % 2 # 1 THEN "ValidationError" ELSE "StopValidation"
      [] name = "validate_3" -> IF v[2] % 3 # 0 THEN "ValidationError" ELSE "ok"
      [] name = "Validatable" -> "ok"
      [] name = "IntValidatable" -> IF v[1] # "int" THEN "ValidationError" ELSE "ok"
      [] name = "odd_validator" -> IF v[2] % 2 # 1 THEN "ValidationError" ELSE "ok"

\* The loop over the validators: it ends with the first one that raises.
run_validators(names, i, v, ch) ==
    IF names = <<>> THEN [out |-> "ok", ran |-> <<>>]
    ELSE LET o == validator(Head(names), i, v, ch)
         IN  IF o # "ok" THEN [out |-> o, ran |-> <<Head(names)>>]
             ELSE [out |-> run_validators(Tail(names), i, v, ch).out,
                   ran |-> <<Head(names)>> \o run_validators(Tail(names), i, v, ch).ran]

\* Validatable.validate: the extra validators are appended to the list
\* _find_methods_in_reverse_mro returned, which is the cached list itself;
\* whatever a validator raises leaves validate.
Validatable_validate(i, v, ch) ==
    LET validators == find_methods(ch, i.cls) \o i.extras
        r == run_validators(validators, i, v, ch)
    IN  [out |-> r.out, ran |-> r.ran, validators |-> validators]


RECURSIVE SetToSeq(_)

\* The list a comprehension over a set builds.
SetToSeq(S) ==
    IF S = {} THEN <<>> ELSE LET x == CHOOSE y \in S : TRUE IN <<x>> \o SetToSeq(S \ {x})

\* FieldContainer.to_doc: get_dbvalue of every declared field, in the order
\* of keys(DECLARED_ONLY), is stored under the field's db-name, then the
\* undeclared fields are added; the first get_dbvalue that raises ends it.
FC_to_doc(c) ==
    LET ks == FC_keys(c, DECLARED_ONLY)
        bad == { i \in 1..Len(ks) : FC_get_dbvalue(c, ks[i], None).out # "ok" }
    IN  IF bad # {}
        THEN ContRet(FC_get_dbvalue(c, ks[CHOOSE i \in bad : \A j \in bad : i <= j], None).out,
                     c, NoContDoc)
        ELSE ContRet("ok", c,
               [ k \in Range(DocKeys) |->
                   IF k \in DOMAIN c.und /\ c.und[k] # Unset THEN c.und[k]
                   ELSE IF FC_dbname_to_field_name(k) # ""
                   THEN FC_get_dbvalue(c, FC_dbname_to_field_name(k), None).ret
                   ELSE Unset ])

\* pyval_to_dbval of the instance's class.
pyval_to_dbval(i, v) ==
    CASE i.cls \in ElementContainers ->
            IF v = PyNone THEN [out |-> "ok", ret |-> PyNone]
            ELSE [out |-> "ok",
                  ret |-> <<"list", IF v[1] = "set" THEN SetToSeq(v[2]) ELSE v[2]>>]
      [] i.cls = "DictValueType" -> [out |-> "ok", ret |-> v]
      [] i.cls = "NamedTupleValueType" ->
            IF v = PyNone THEN [out |-> "ok", ret |-> PyNone]
            ELSE [out |-> "ok",
                  ret |-> <<"dict", { <<PyStr(1), v[2][1]>>, <<PyStr(2), v[2][2]>> }>>]
      [] i.cls = "FieldContainerValueType" ->
            IF v = PyNone THEN [out |-> "AttributeError", ret |-> PyNone]
            ELSE [out |-> FC_to_doc(v[2]).out, ret |-> <<"doc", FC_to_doc(v[2]).ret>>]
      [] i.cls = "LazyValueType" ->
            IF v = PyNone THEN [out |-> "AttributeError", ret |-> PyNone]
            ELSE [out |-> "ok",
                  ret |-> IF v[2].l.val_db = None THEN PyNone ELSE PyStr(v[2].l.val_db)]
      [] OTHER -> [out |-> "ok", ret |-> v]

\* dbval_to_pyval of the instance's class; a LazyValueType creates a new,
\* unloaded LazyValue around the db value.
dbval_to_pyval(i, d) ==
    CASE i.cls \in ElementContainers ->
            IF d = PyNone THEN [out |-> "ok", ret |-> PyNone]
            ELSE [out |-> "ok",
                  ret |-> CASE i.cls = "TupleValueType" -> <<"tuple", d[2]>>
                            [] i.cls = "ListValueType" -> <<"list", d[2]>>
                            [] i.cls = "SetValueType" -> <<"set", Range(d[2])>>]
      [] i.cls = "DictValueType" -> [out |-> "ok", ret |-> d]
      [] i.cls = "NamedTupleValueType" ->
            IF d = PyNone THEN [out |-> "ok", ret |-> PyNone]
            ELSE [out |-> "ok",
                  ret |-> <<"nt", << (CHOOSE kv \in d[2] : kv[1] = PyStr(1))[2],
                                     (CHOOSE kv \in d[2] : kv[1] = PyStr(2))[2] >> >>]
      [] i.cls = "FieldContainerValueType" ->
            IF d = PyNone THEN [out |-> "AttributeError", ret |-> PyNone]
            ELSE [out |-> FC_from_doc(d[2]).out, ret |-> <<"fc", FC_from_doc(d[2]).c>>]
      [] i.cls = "LazyValueType" ->
            [out |-> "ok",
             ret |-> <<"lazy", [obj |-> 2,
                                l |-> LazyValue_init(None, IF d = PyNone THEN None ELSE d[2]).l]>>]
      [] OTHER -> [out |-> "ok", ret |-> d]

\* a == b in Python: a namedtuple equals the tuple of its items, a
\* FieldContainer is a Mapping and equals a mapping with the same items, a
\* LazyValue equals only itself.
PyEq(a, b) ==
    IF a[1] \in {"tuple", "nt"} /\ b[1] \in {"tuple", "nt"} THEN a[2] = b[2]
    ELSE IF a[1] = "fc" /\ b[1] = "fc"
    THEN Range(FC_items(a[2], ALL)) = Range(FC_items(b[2], ALL))
    ELSE a[1] = b[1] /\ a = b

\* The containers and lazy values handed to the value types.
TypeFCs ==
    { NewContainer, FC_setitem(NewContainer, "f3", 1).c, FC_setitem(NewContainer, "u", 1).c,
      FC_delitem(FC_setitem(NewContainer, "f3", 1).c, "f3").c }

TypeLazies == { LazyValue_init(None, UpBase + 1).l, LazyValue_init(1, None).l }

TypeVals ==
    { PyNone, PyStr(1), PyStr(UpBase + 1),
      <<"tuple", <<PyInt(1), PyInt(2)>> >>, <<"tuple", <<PyInt(1), PyStr(1)>> >>,
      <<"list", <<PyInt(1), PyNone>> >>, <<"set", {PyInt(1), PyInt(2)}>>,
      <<"dict", { <<PyStr(1), PyInt(1)>> }>>, <<"dict", { <<PyInt(1), PyInt(1)>> }>>,
      <<"nt", <<PyInt(1), PyInt(2)>> >>, <<"nt", <<PyInt(1), PyStr(1)>> >> }
    \cup { PyInt(n) : n \in 1..MaxVal }
    \cup { <<"fc", c>> : c \in TypeFCs }
    \cup { <<"lazy", [obj |-> 1, l |-> l]>> : l \in TypeLazies }

\* The values an instance is given: the extra validators of the tests take
\* integers, the others anything.
InputsOf(n) ==
    IF n = "any_stop" THEN { PyInt(k) : k \in 1..MaxVal }
    ELSE IF n = "any_custom" \/ Instances[n].kind = "Validatable"
    THEN { PyNone, PyStr(1) } \cup { PyInt(k) : k \in 1..MaxVal }
    ELSE TypeVals

ValueTypeNames == { n \in DOMAIN Instances : Instances[n].kind = "ValueType" }

ValidatableNames == { n \in DOMAIN Instances : Instances[n].kind = "Validatable" }

Accepted(n) == { v \in InputsOf(n) : AnyValueType_validate(Instances[n], v, cache).out = "ok" }

TypeDone(nm, n, v, out, ran, ret) ==
    [name |-> nm, cls |-> Instances[n].cls, inst |-> n, val |-> v,
     out |-> out, ran |-> ran, ret |-> ret]

\* vt.validate(v)
TypeValidate(n, v) ==
    LET r == AnyValueType_validate(Instances[n], v, cache)
    IN  /\ vop' = TypeDone("validate", n, v, r.out, r.ran, PyNone)
        /\ UNCHANGED cache

\* obj.validate(v) on a Validatable
ValidatableValidate(n, v) ==
    LET r == Validatable_validate(Instances[n], v, cache)
    IN  /\ Len(r.validators) <= MaxChain
        /\ cache' = [cache EXCEPT ![Instances[n].cls] = r.validators]
        /\ vop' = TypeDone("validate", n, v, r.out, r.ran, IF r.out = "ok" THEN v ELSE PyNone)

\* vt.pyval_to_dbval(v)
PyvalToDbval(n, v) ==
    LET r == pyval_to_dbval(Instances[n], v)
    IN  /\ vop' = TypeDone("pyval_to_dbval", n, v, r.out, <<>>, r.ret)
        /\ UNCHANGED cache

\* vt.dbval_to_pyval(d)
DbvalToPyval(n, d) ==
    LET r == dbval_to_pyval(Instances[n], d)
    IN  /\ vop' = TypeDone("dbval_to_pyval", n, d, r.out, <<>>, r.ret)
        /\ UNCHANGED cache

\* vt.dbval_to_pyval(vt.pyval_to_dbval(v)) for a value vt.validate accepts
RoundTrip(n, v) ==
    LET d == pyval_to_dbval(Instances[n], v)
        p == dbval_to_pyval(Instances[n], d.ret)
    IN  /\ vop' = IF d.out # "ok" THEN TypeDone("roundtrip", n, v, d.out, <<>>, PyNone)
                  ELSE TypeDone("roundtrip", n, v, p.out, <<>>, p.ret)
        /\ UNCHANGED cache

InitType ==
    /\ cache = NoCache
    /\ vop = NoValidation
    /\ reg = NoRegistry
    /\ index = NoIndex
    /\ pool = NewPool
    /\ pop = NoPoolOp
    /\ heap = NewHeap
    /\ hop = NoHeapOp
    /\ fc = NewContainer
    /\ cop = ContDone("new", "", None, "ok", None)
    /\ lz = NoValue
    /\ lop = LazyDone("", None, "ok", None, 0)
    /\ feed = NoFeed
    /\ iter = NewIter
    /\ defined = {}
    /\ objs = <<>>
    /\ copied = <<>>
    /\ op = Done("", "new", "", None, "ok")
    /\ reqs = <<>>

TypeOps ==
    \/ \E n \in ValueTypeNames : \E v \in InputsOf(n) : TypeValidate(n, v)
    \/ \E n \in ValidatableNames : \E v \in InputsOf(n) : ValidatableValidate(n, v)
    \/ \E n \in ValueTypeNames : \E v \in Accepted(n) \cup {PyNone} : PyvalToDbval(n, v)
    \/ \E n \in ValueTypeNames :
         \E d \in {PyNone} \cup { pyval_to_dbval(Instances[n], v).ret :
                                    v \in { x \in Accepted(n) :
                                              pyval_to_dbval(Instances[n], x).out = "ok" } } :
            DbvalToPyval(n, d)
    \/ \E n \in ValueTypeNames : \E v \in Accepted(n) : RoundTrip(n, v)

NextType == TypeOps /\ UNCHANGED <<docvars, feedvars, lazyvars, contvars, classvars, connvars, heapvars>>

SpecType == InitType /\ [][NextType]_vars

(***************************************************************************)
(* Properties of validation and conversion.                                *)
(***************************************************************************)

\* C14: validate(value) of a value type, for every value type and every
\* value, None and values of the wrong Python type included, either returns
\* or raises ValidationError; it never ends with another error.
C14_ValidateReturnsOrValidationError ==
    (vop.name = "validate" /\ Instances[vop.inst].kind = "ValueType")
        => vop.out \in {"ok", "ValidationError"}

\* The validators of an instance: those of its class from the most general
\* ancestor to the class itself, then its extra validators as supplied.
ChainOf(n) == reverse_mro(Instances[n].cls) \o Instances[n].extras

\* C15: validate() calls the _validate methods from the most general
\* ancestor to the most specific class and then the instance's extra
\* validators in the order supplied; the first ValidationError leaves
\* validate and no later validator is called; a validator that raises
\* StopValidation makes validate return with no later validator called.
C15_ValidatorsRunInOrder ==
    vop.name = "validate" =>
        LET k == Len(vop.ran)
            Raised(j) == validator(vop.ran[j], Instances[vop.inst], vop.val, cache)
        IN  /\ k >= 1 /\ k <= Len(ChainOf(vop.inst))
            /\ SubSeq(ChainOf(vop.inst), 1, k) = vop.ran
            /\ \A j \in 1..(k - 1) : Raised(j) = "ok"
            /\ Raised(k) = "ok" => (k = Len(ChainOf(vop.inst)) /\ vop.out = "ok")
            /\ Raised(k) = "ValidationError" => vop.out = "ValidationError"
            /\ Raised(k) = "StopValidation" => vop.out = "ok"

SimpleContainers == ElementContainers \cup {"DictValueType", "NamedTupleValueType"}

\* C16: for every value type and every value v its validate accepts,
\* dbval_to_pyval(pyval_to_dbval(v)) == v; the container value types
\* convert None to None in both directions.
C16_RoundTripIsIdentity ==
    /\ vop.name = "roundtrip" => (vop.out = "ok" /\ PyEq(vop.ret, vop.val))
    /\ (/\ vop.name \in {"pyval_to_dbval", "dbval_to_pyval"}
        /\ vop.cls \in SimpleContainers
        /\ vop.val = PyNone)
          => (vop.out = "ok" /\ vop.ret = PyNone)

\* The number of times validator x occurs in the sequence ran.
Count(ran, x) == Cardinality({ j \in 1..Len(ran) : ran[j] = x })

\* C30: validate() never changes the memoized validator list of a class:
\* whenever a class has a cached list, it is the list of the _validate
\* methods along its inheritance chain; no validate() call calls one of the
\* instance's extra validators more than once, and none runs a validator
\* that is neither of the class nor one of the instance's extra validators.
C30_CachedListNeverChanges ==
    /\ \A c \in DOMAIN cache : cache[c] # <<>> => cache[c] = reverse_mro(c)
    /\ vop.name = "validate" =>
         /\ \A x \in Range(vop.ran) : x \in Range(ChainOf(vop.inst))
         /\ \A x \in Range(Instances[vop.inst].extras) : Count(vop.ran, x) <= 1

(***************************************************************************)
(* Class construction and the registry (_MetaDocument.__init__,            *)
(* Document._map_declared_fields, registry.py).  A class body is the set   *)
(* of its Field attributes; the classes are those of the primary-key tests *)
(* and one whose field has the name of a Document method.  A registry      *)
(* entry is the class object, named by its class.                          *)
(***************************************************************************)
Decls ==
    [ EmptyDoc |-> {},
      MyDoc    |-> { [name |-> "f1", primary_key |-> TRUE] },
      OwnPkey  |-> { [name |-> "pkey", primary_key |-> FALSE] },
      IdNoPk   |-> { [name |-> "id", primary_key |-> FALSE] },
      TwoPk    |-> { [name |-> "f1", primary_key |-> TRUE], [name |-> "f2", primary_key |-> TRUE] },
      KeysDoc  |-> { [name |-> "keys", primary_key |-> FALSE] } ]

\* hasattr(Document, name) for the names the class bodies use.
DocumentAttrs == {"keys", "pkey"}

\* fields is _declared_fields_objects, pks the fields in it with primary_key
\* true, pkey the name of the field cls.pkey is set to.
MapRet(out, fields, pks, pk) == [out |-> out, fields |-> fields, pks |-> pks, pkey |-> pk]

\* A variant of _map_declared_fields that adds no id field.
_map_declared_fields_no_id(decl) ==
    LET flds == { f \in decl : f.name # "pkey" }
        pks == { f.name : f \in { g \in flds : g.primary_key } }
    IN  IF Cardinality(pks) > 1 THEN MapRet("IllegalSpecError", {}, {}, "")
        ELSE IF pks = {} THEN MapRet("ok", { f.name : f \in flds }, {}, "id")
        ELSE MapRet("ok", { f.name : f \in flds }, pks, CHOOSE n \in pks : TRUE)

\* Document._map_declared_fields: the Field attributes other than pkey
\* become the declared fields; a class without a primary key field gets
\* the field id; pkey is set to the primary key field.
_map_declared_fields(decl) ==
    LET flds == { f \in decl : f.name # "pkey" }
        pks == { f.name : f \in { g \in flds : g.primary_key } }
    IN  IF \E f \in flds : f.name \in DocumentAttrs THEN MapRet("IllegalSpecError", {}, {}, "")
        ELSE IF Cardinality(pks) > 1 THEN MapRet("IllegalSpecError", {}, {}, "")
        ELSE IF pks = {}
        THEN IF "id" \in { f.name : f \in flds } THEN MapRet("IllegalSpecError", {}, {}, "")
             ELSE MapRet("ok", { f.name : f \in flds } \cup {"id"}, {"id"}, "id")
        ELSE MapRet("ok", { f.name : f \in flds }, pks, CHOOSE n \in pks : TRUE)

RegRet(out, rg) == [out |-> out, rg |-> rg]

\* A variant of register that replaces an existing entry.
register_replacing(rg, name, klass) == RegRet("ok", [rg EXCEPT ![name] = klass])

\* DocumentRegistry.register, which __setitem__ calls
register(rg, name, klass) ==
    IF rg[name] # "" THEN RegRet("AlreadyExistsError", rg)
    ELSE RegRet("ok", [rg EXCEPT ![name] = klass])

\* DocumentRegistry.unregister, which __delitem__ calls
unregister(rg, name) ==
    IF rg[name] = "" THEN RegRet("KeyError", rg)
    ELSE RegRet("ok", [rg EXCEPT ![name] = ""])

\* _MetaDocument.__init__ for the class statement of c: the fields are
\* mapped, then the class is registered under its name; when either raises
\* the class statement fails and there is no class.
DefineClass(c) ==
    LET m == _map_declared_fields(Decls[c])
        r == IF m.out = "ok" THEN register(reg, c, c) ELSE RegRet(m.out, reg)
    IN  /\ Idle
        /\ reg' = r.rg
        /\ defined' = IF r.out = "ok" THEN defined \cup {c} ELSE defined
        /\ op' = Done("", "define", c, None, r.out)
        /\ UNCHANGED <<objs, copied, reqs>>

\* One call on the registry.
RegOp(nm, name, klass, r) ==
    /\ Idle
    /\ reg' = r.rg
    /\ op' = Done("", nm, name, klass, r.out)
    /\ UNCHANGED <<defined, objs, copied, reqs>>

\* MutableMapping.clear: every entry is popped.
RegClear ==
    /\ Idle
    /\ reg' = NoRegistry
    /\ op' = Done("", "clear", "", None, "ok")
    /\ UNCHANGED <<defined, objs, copied, reqs>>

\* d = c() for a class that exists.
Instantiate(c) ==
    /\ c \in defined
    /\ objs' = [o \in {"d"} |-> NewDoc(c)]
    /\ op' = Done("d", "new", c, None, "ok")
    /\ UNCHANGED <<defined, copied, reqs, reg>>

\* The keys the instance is accessed by: pkey and the primary key field's name.
PkeyKeys == IF Cardinality(DOMAIN objs) = 0 THEN {} ELSE {"pkey", pkey(objs["d"].cls)}

InitClass ==
    /\ reg = NoRegistry
    /\ index = NoIndex
    /\ defined = {}
    /\ objs = <<>>
    /\ copied = <<>>
    /\ op = Done("", "new", "", None, "ok")
    /\ reqs = <<>>
    /\ feed = NoFeed
    /\ iter = NewIter
    /\ lz = NoValue
    /\ lop = LazyDone("", None, "ok", None, 0)
    /\ fc = NewContainer
    /\ cop = ContDone("new", "", None, "ok", None)
    /\ cache = NoCache
    /\ vop = NoValidation
    /\ pool = NewPool
    /\ pop = NoPoolOp
    /\ heap = NewHeap
    /\ hop = NoHeapOp

ClassOps ==
    \/ \E c \in DOMAIN Decls : DefineClass(c)
    \/ \E n \in {"Dummy", "EmptyDoc"} : RegOp("register", n, "Dummy", register(reg, n, "Dummy"))
    \/ RegOp("setitem", "Dummy", "Dummy2", register(reg, "Dummy", "Dummy2"))
    \/ \E n \in {"Dummy", "EmptyDoc"} : RegOp("unregister", n, "", unregister(reg, n))
    \/ RegOp("delitem", "Dummy", "", unregister(reg, "Dummy"))
    \/ RegClear
    \/ \E c \in {"EmptyDoc", "MyDoc"} : Instantiate(c)
    \/ \E k \in PkeyKeys : \E v \in 1..MaxVal : SetItem("d", k, v) /\ UNCHANGED reg
    \/ \E k \in PkeyKeys : DelItem("d", k) /\ UNCHANGED reg
    \/ \E k \in PkeyKeys : GetItem("d", k) /\ UNCHANGED reg

NextClass ==
    ClassOps /\ UNCHANGED <<index, feedvars, lazyvars, contvars, typevars, connvars, heapvars>>

SpecClass == InitClass /\ [][NextClass]_vars

(***************************************************************************)
(* Properties of class construction and the registry.                      *)
(***************************************************************************)

\* C21: a Document subclass that has been constructed has exactly one
\* declared field with primary_key true, the field id when the class body
\* declares none, and pkey is that field; in every state reading pkey gives
\* the value of that field, and writing or deleting through the key pkey
\* changes the values and the dirty set as doing so through the field's own
\* name does.
C21_PkeyAliasesPrimaryKey ==
    [][ /\ (op'.name = "define" /\ op'.out = "ok") =>
             LET m == _map_declared_fields(Decls[op'.key])
             IN  /\ Cardinality(m.pks) = 1
                 /\ m.pks \subseteq m.fields
                 /\ m.pkey \in m.pks
                 /\ (Decls[op'.key] = {} => m.pkey = "id")
                 /\ DeclaredFields(op'.key) = m.fields
                 /\ \A n \in m.fields : primary_key(op'.key, n) <=> n \in m.pks
                 /\ pkey(op'.key) = m.pkey
        /\ op'.obj = "d" =>
             /\ getitem(objs'["d"], "pkey") = getitem(objs'["d"], pkey(objs'["d"].cls))
             /\ getitem(objs'["d"], "pkey").val = _get_value(objs'["d"], pkey(objs'["d"].cls))
        /\ (op'.obj = "d" /\ op'.name = "setitem" /\ op'.key = "pkey") =>
             LET r == setitem(objs["d"], pkey(objs["d"].cls), op'.val)
             IN  /\ op'.out = r.out
                 /\ objs'["d"].vals = r.d.vals
                 /\ objs'["d"].dirty = r.d.dirty
        /\ (op'.obj = "d" /\ op'.name = "delitem" /\ op'.key = "pkey") =>
             LET r == delitem(objs["d"], pkey(objs["d"].cls))
             IN  /\ op'.out = r.out
                 /\ objs'["d"].vals = r.d.vals
                 /\ objs'["d"].dirty = r.d.dirty
      ]_vars

C21_Witness ==
    /\ op.obj = "d" /\ op.name = "setitem" /\ op.key = "pkey" /\ op.val = 1
    /\ objs["d"].cls = "MyDoc"
    /\ objs["d"].vals["f1"] = 1
    /\ "f1" \in objs["d"].dirty
    /\ reg["MyDoc"] = "MyDoc"

\* C22: the class statement of a Document class that declares two primary
\* key fields, or a field id that is not the primary key, or its own field
\* pkey, raises IllegalSpecError, and the class is not in the registry
\* afterwards.
C22_IllegalClassRaises ==
    (op.name = "define" /\ op.key \in {"TwoPk", "IdNoPk", "OwnPkey"})
        => /\ op.out = "IllegalSpecError"
           /\ \A n \in RegNames : reg[n] # op.key

\* The step is a call that registers op'.val under the name op'.key: register,
\* item assignment, or the class statement of a class whose fields are legal.
Registers ==
    /\ op'.obj = ""
    /\ \/ op'.name \in {"register", "setitem"}
       \/ op'.name = "define" /\ _map_declared_fields(Decls[op'.key]).out = "ok"

\* C27: registering a name that is registered, through register, item
\* assignment or the class statement of a second Document class of that
\* name, raises AlreadyExistsError and leaves the registry as it was;
\* registering a name that is not registered, also after unregister or
\* clear removed it, succeeds and adds only that entry; unregister and clear
\* remove the entries.
C27_DuplicateNameRejected ==
    [][ /\ (Registers /\ reg[op'.key] # "") =>
             (op'.out = "AlreadyExistsError" /\ reg' = reg)
        /\ (Registers /\ reg[op'.key] = "") =>
             /\ op'.out = "ok"
             /\ reg' = [reg EXCEPT ![op'.key] = IF op'.name = "define" THEN op'.key ELSE op'.val]
        /\ (op'.obj = "" /\ op'.name \in {"unregister", "delitem"} /\ op'.out = "ok") =>
             reg' = [reg EXCEPT ![op'.key] = ""]
        /\ (op'.obj = "" /\ op'.name = "clear") => reg' = NoRegistry
      ]_vars

C27_Witness ==
    /\ op.name = "define" /\ op.key = "EmptyDoc" /\ op.out = "AlreadyExistsError"
    /\ reg["EmptyDoc"] = "Dummy"
    /\ "EmptyDoc" \notin defined

(***************************************************************************)
(* The connection pool (db.py, _OneConnPerThreadPool).                     *)
(*                                                                         *)
(* pool.conn[th] is the attribute conn of the thread-local object of       *)
(* thread th (Unset: the attribute does not exist), connections are        *)
(* numbered in the order r.connect returned them, pool.open is the set of  *)
(* connections whose is_open() is true.  Tasks a1 and b1 run on the event  *)
(* loop of thread 1, task a2 on that of thread 2.  A coroutine runs up to  *)
(* its next await in one step: get() suspends in r.connect, close() in     *)
(* conn.close.  pool.closing[t] is the connection object close() of task t *)
(* evaluated before it suspended.  pool.last[th] records the connection    *)
(* the last get() of thread th returned, forgotten when a close() of that  *)
(* thread returns.                                                         *)
(***************************************************************************)

MaxConns == 3

ConnectKwargs == {1, 2}

PoolRet(out, p) == [out |-> out, p |-> p]

\* Variant that stores the parameters whether or not some are stored.
configure_db_connection_overwriting(p, kw) ==
    PoolRet("ok", [p EXCEPT !.connect_kwargs = kw])

configure_db_connection(p, kw) ==
    IF p.connect_kwargs # None THEN PoolRet("AlreadyExistsError", p)
    ELSE PoolRet("ok", [p EXCEPT !.connect_kwargs = kw])

PoolDone(t, nm, arg, out, ret) ==
    [task |-> t, name |-> nm, arg |-> arg, out |-> out, ret |-> ret]

Configure(t, kw) ==
    LET r == configure_db_connection(pool, kw)
    IN  /\ pool.pc[t] = "idle"
        /\ pool' = r.p
        /\ pop' = PoolDone(t, "configure", kw, r.out, None)

\* get() up to the await of r.connect, or to its end when it does not connect.
GetBegin(t) ==
    /\ pool.pc[t] = "idle"
    /\ IF pool.connect_kwargs = None
       THEN /\ pool' = pool
            /\ pop' = PoolDone(t, "get", None, "IllegalAccessError", None)
       ELSE IF pool.conn[thread(t)] = Unset
       THEN /\ pool' = [pool EXCEPT !.pc[t] = "connecting"]
            /\ pop' = PoolDone(t, "get", None, "pending", None)
       ELSE /\ pool' = [pool EXCEPT !.last[thread(t)] = pool.conn[thread(t)]]
            /\ pop' = PoolDone(t, "get", None, "ok", pool.conn[thread(t)])

\* r.connect returned a new connection: get() stores and returns it.
GetComplete(t) ==
    /\ pool.pc[t] = "connecting"
    /\ pool.opened < MaxConns
    /\ LET c == pool.opened + 1
       IN  /\ pool' = [pool EXCEPT !.pc[t] = "idle",
                                   !.opened = c,
                                   !.open = @ \cup {c},
                                   !.conn[thread(t)] = c,
                                   !.last[thread(t)] = c]
           /\ pop' = PoolDone(t, "get", None, "ok", c)

\* r.connect raised: get() passes the error on.
GetFail(t) ==
    /\ pool.pc[t] = "connecting"
    /\ pool' = [pool EXCEPT !.pc[t] = "idle"]
    /\ pop' = PoolDone(t, "get", None, "ReqlDriverError", None)

\* close() up to the await of conn.close, or to its end when the thread has
\* no connection or the connection is not open.
CloseBegin(t) ==
    LET th == thread(t)
    IN  /\ pool.pc[t] = "idle"
        /\ IF pool.conn[th] = Unset
           THEN /\ pool' = [pool EXCEPT !.last[th] = Unset]
                /\ pop' = PoolDone(t, "close", None, "ok", None)
           ELSE IF pool.conn[th] \in pool.open
           THEN /\ pool' = [pool EXCEPT !.pc[t] = "closing", !.closing[t] = pool.conn[th]]
                /\ pop' = PoolDone(t, "close", None, "pending", None)
           ELSE /\ pool' = [pool EXCEPT !.conn[th] = Unset, !.last[th] = Unset]
                /\ pop' = PoolDone(t, "close", None, "ok", None)

\* conn.close returned: del self._tl.conn, an AttributeError when the
\* attribute is gone.
CloseComplete(t) ==
    LET th == thread(t)
    IN  /\ pool.pc[t] = "closing"
        /\ pool' = [pool EXCEPT !.pc[t] = "idle",
                                !.closing[t] = Unset,
                                !.open = @ \ {pool.closing[t]},
                                !.conn[th] = Unset,
                                !.last[th] = Unset]
        /\ pop' = PoolDone(t, "close", pool.closing[t],
                           IF pool.conn[th] = Unset THEN "AttributeError" ELSE "ok", None)

\* The caller closes the connection it got, not through the pool.
CnClose(t) ==
    /\ pool.pc[t] = "idle"
    /\ pool.conn[thread(t)] # Unset
    /\ pool' = [pool EXCEPT !.open = @ \ {pool.conn[thread(t)]}]
    /\ pop' = PoolDone(t, "cn_close", pool.conn[thread(t)], "ok", None)

InitConn ==
    /\ pool = NewPool
    /\ pop = NoPoolOp
    /\ reg = NoRegistry
    /\ index = NoIndex
    /\ defined = {}
    /\ objs = <<>>
    /\ copied = <<>>
    /\ op = Done("", "new", "", None, "ok")
    /\ reqs = <<>>
    /\ feed = NoFeed
    /\ iter = NewIter
    /\ lz = NoValue
    /\ lop = LazyDone("", None, "ok", None, 0)
    /\ fc = NewContainer
    /\ cop = ContDone("new", "", None, "ok", None)
    /\ cache = NoCache
    /\ vop = NoValidation
    /\ heap = NewHeap
    /\ hop = NoHeapOp

ConnOps ==
    \/ \E t \in Tasks : \E kw \in ConnectKwargs : Configure(t, kw)
    \/ \E t \in Tasks : GetBegin(t)
    \/ \E t \in Tasks : GetComplete(t)
    \/ \E t \in Tasks : GetFail(t)
    \/ \E t \in Tasks : CloseBegin(t)
    \/ \E t \in Tasks : CloseComplete(t)
    \/ \E t \in Tasks : CnClose(t)

NextConn == ConnOps /\ UNCHANGED <<docvars, feedvars, lazyvars, contvars, typevars, classvars, heapvars>>

SpecConn == InitConn /\ [][NextConn]_vars

\* C28: in one thread get() returns the connection the last get() of the
\* thread returned as long as no close() of the thread returned since, and a
\* connection no get() returned before otherwise; two threads never hold the
\* same connection; a close() changes neither the connection of the other
\* thread nor whether it is open; close() never raises, and without a
\* connection in the thread it changes nothing.
C28_OneConnectionPerThread ==
    [][ LET th == thread(pop'.task)
        IN  /\ (pop'.name = "get" /\ pop'.out = "ok") =>
                 IF pool.last[th] # Unset THEN pop'.ret = pool.last[th]
                 ELSE pop'.ret \notin 1..pool.opened
            /\ (pool'.conn[1] # Unset /\ pool'.conn[2] # Unset) => pool'.conn[1] # pool'.conn[2]
            /\ pop'.name = "close" =>
                 /\ pop'.out \in {"ok", "pending"}
                 /\ \A o \in Threads \ {th} :
                      /\ pool'.conn[o] = pool.conn[o]
                      /\ (pool.conn[o] \in pool.open <=> pool.conn[o] \in pool'.open)
                 /\ (pool.conn[th] = Unset /\ pool.pc[pop'.task] = "idle") =>
                      /\ pop'.out = "ok"
                      /\ pool'.conn = pool.conn
                      /\ pool'.open = pool.open
                      /\ pool'.opened = pool.opened
      ]_vars

\* C29: configure_db_connection raises AlreadyExistsError and keeps the
\* stored parameters when parameters are stored, and stores its parameters
\* otherwise; get() without stored parameters raises IllegalAccessError and
\* neither opens nor starts to open a connection.
C29_ConfigureOnce ==
    [][ /\ (pop'.name = "configure" /\ pool.connect_kwargs # None) =>
             /\ pop'.out = "AlreadyExistsError"
             /\ pool' = pool
        /\ (pop'.name = "configure" /\ pool.connect_kwargs = None) =>
             /\ pop'.out = "ok"
             /\ pool'.connect_kwargs = pop'.arg
        /\ (pop'.name = "get" /\ pool.connect_kwargs = None) =>
             /\ pop'.out = "IllegalAccessError"
             /\ pool' = pool
        /\ pool.connect_kwargs # None => pool'.connect_kwargs = pool.connect_kwargs
      ]_vars

C29_Witness ==
    /\ pop.name = "configure" /\ pop.out = "AlreadyExistsError"
    /\ pop.arg = 2 /\ pool.connect_kwargs = 1
    /\ pool.conn[1] # Unset

(***************************************************************************)
(* Value objects of a lazy field and the slots that hold them              *)
(* (fields/lazy.py, Document.copy).                                        *)
(*                                                                         *)
(* Two instances a and b of a Document class with one ReferenceField f1.   *)
(* heap.values is the sequence of Value objects made so far, a Value's     *)
(* identity its index; heap.slot[c] is the Value in                        *)
(* c._declared_fields_values["f1"] (0: no entry); heap.dirty[c] is         *)
(* c._updated_fields.  The referenced documents are 1..MaxVal, stored,     *)
(* with primary keys GenBase + 1 .. GenBase + MaxVal.                      *)
(***************************************************************************)

MaxValues == 2

Containers == {"a", "b"}

\* LazyField.Value.__init__
Value(obj, val_doc, val_cached) ==
    [obj |-> obj, val_doc |-> val_doc, val_cached |-> val_cached, loaded |-> val_cached # None]

\* ReferenceField.Value._convert_to_doc: the primary key of the document.
Value_convert_to_doc(v) == GenBase + v

\* LazyField._get_value: a slot without Value gets a new one.
LazyField_get_value(h, c) ==
    IF h.slot[c] # 0 THEN h
    ELSE [h EXCEPT !.values = Append(@, Value(c, None, None)),
                   !.slot[c] = Len(h.values) + 1]

\* LazyField.Value.set: the update is recorded in the Value's _obj.
Value_set(h, id, v) ==
    [h EXCEPT !.values[id] = [@ EXCEPT !.val_cached = v, !.loaded = TRUE,
                                       !.val_doc = Value_convert_to_doc(v)],
              !.dirty[h.values[id].obj] = @ \cup {"f1"}]

\* LazyField._set_value with something that is no Value, then Field.__set__.
LazyField_set(h, c, v) ==
    LET g == IF h.slot[c] # 0 THEN Value_set(h, h.slot[c], v)
             ELSE [h EXCEPT !.values = Append(@, Value(c, None, v)),
                            !.slot[c] = Len(h.values) + 1]
    IN  [g EXCEPT !.dirty[c] = @ \cup {"f1"}]

\* LazyField._set_value with a Value, then Field.__set__.
LazyField_set_value(h, c, id) ==
    [h EXCEPT !.slot[c] = id, !.dirty[c] = @ \cup {"f1"}]

\* What reading f1 of c gives: the state of the Value in the slot.
Reads(h, c) ==
    IF h.slot[c] = 0 THEN Value("", None, None)
    ELSE [h.values[h.slot[c]] EXCEPT !.obj = ""]

\* A new Value is made only when the slot has none.
Makes(h, c) == h.slot[c] = 0

HeapDone(nm, c, from, arg, out, ret) ==
    [name |-> nm, obj |-> c, from |-> from, arg |-> arg, out |-> out, ret |-> ret]

\* c = Doc2()
ShareNew(c) ==
    /\ heap' = [heap EXCEPT !.slot[c] = 0, !.dirty[c] = {}]
    /\ hop' = HeapDone("new", c, "", None, "ok", None)

\* c.f1
ShareRead(c) ==
    /\ Makes(heap, c) => Len(heap.values) < MaxValues
    /\ heap' = LazyField_get_value(heap, c)
    /\ hop' = HeapDone("read", c, "", None, "ok", heap'.slot[c])

\* c.f1 = v, v a document
ShareAssign(c, v) ==
    /\ Makes(heap, c) => Len(heap.values) < MaxValues
    /\ heap' = LazyField_set(heap, c, v)
    /\ hop' = HeapDone("assign", c, "", v, "ok", None)

\* c.f1 = o.f1
ShareAssignValue(c, o) ==
    /\ c # o
    /\ Makes(heap, o) => Len(heap.values) < MaxValues
    /\ LET h == LazyField_get_value(heap, o)
       IN  heap' = LazyField_set_value(h, c, h.slot[o])
    /\ hop' = HeapDone("assign_value", c, o, None, "ok", None)

\* c = o.copy(): a new instance, then doc["f1"] = self["f1"]
ShareCopy(o, c) ==
    /\ c # o
    /\ Makes(heap, o) => Len(heap.values) < MaxValues
    /\ LET h == LazyField_get_value(heap, o)
           n == [h EXCEPT !.slot[c] = 0, !.dirty[c] = {}]
       IN  heap' = LazyField_set_value(n, c, n.slot[o])
    /\ hop' = HeapDone("copy", c, o, None, "ok", None)

\* c.f1.set(v)
ShareSet(c, v) ==
    /\ Makes(heap, c) => Len(heap.values) < MaxValues
    /\ LET h == LazyField_get_value(heap, c)
       IN  heap' = Value_set(h, h.slot[c], v)
    /\ hop' = HeapDone("set", c, "", v, "ok", None)

\* await c.f1.load(): the document with the stored key, NotFoundError when
\* there is no key.
ShareLoad(c) ==
    /\ Makes(heap, c) => Len(heap.values) < MaxValues
    /\ LET h == LazyField_get_value(heap, c)
           id == h.slot[c]
       IN  IF h.values[id].val_doc = None
           THEN /\ heap' = h
                /\ hop' = HeapDone("load", c, "", None, "NotFoundError", None)
           ELSE /\ heap' = [h EXCEPT !.values[id] =
                              [@ EXCEPT !.val_cached = h.values[id].val_doc - GenBase,
                                        !.loaded = TRUE]]
                /\ hop' = HeapDone("load", c, "", None, "ok", h.values[id].val_doc - GenBase)

\* del c.f1
ShareDelete(c) ==
    /\ heap' = IF heap.slot[c] = 0 THEN heap
               ELSE [heap EXCEPT !.slot[c] = 0, !.dirty[c] = @ \cup {"f1"}]
    /\ hop' = HeapDone("delete", c, "", None, "ok", None)

\* save(): the record of updated fields is emptied.
ShareSaved(c) ==
    /\ heap' = [heap EXCEPT !.dirty[c] = {}]
    /\ hop' = HeapDone("save", c, "", None, "ok", None)

InitShare ==
    /\ heap = NewHeap
    /\ hop = NoHeapOp
    /\ pool = NewPool
    /\ pop = NoPoolOp
    /\ reg = NoRegistry
    /\ index = NoIndex
    /\ defined = {}
    /\ objs = <<>>
    /\ copied = <<>>
    /\ op = Done("", "new", "", None, "ok")
    /\ reqs = <<>>
    /\ feed = NoFeed
    /\ iter = NewIter
    /\ lz = NoValue
    /\ lop = LazyDone("", None, "ok", None, 0)
    /\ fc = NewContainer
    /\ cop = ContDone("new", "", None, "ok", None)
    /\ cache = NoCache
    /\ vop = NoValidation

ShareOps ==
    \/ \E c \in Containers : ShareNew(c)
    \/ \E c \in Containers : ShareRead(c)
    \/ \E c \in Containers : \E v \in 1..MaxVal : ShareAssign(c, v)
    \/ \E c, o \in Containers : ShareAssignValue(c, o)
    \/ \E c, o \in Containers : ShareCopy(o, c)
    \/ \E c \in Containers : \E v \in 1..MaxVal : ShareSet(c, v)
    \/ \E c \in Containers : ShareLoad(c)
    \/ \E c \in Containers : ShareDelete(c)
    \/ \E c \in Containers : ShareSaved(c)

NextShare == ShareOps /\ UNCHANGED <<docvars, feedvars, lazyvars, contvars, typevars, classvars, connvars>>

SpecShare == InitShare /\ [][NextShare]_vars

\* C26: no two slots hold the same Value object, and a set() or load()
\* through one instance changes neither what the other instance reads nor
\* the other instance's record of updated fields.
C26_LazyValueNeverShared ==
    [][ /\ \A c, o \in Containers :
             (c # o /\ heap'.slot[c] # 0) => heap'.slot[c] # heap'.slot[o]
        /\ hop'.name \in {"set", "load"} =>
             \A o \in Containers \ {hop'.obj} :
                 /\ heap.slot[o] # 0 => Reads(heap', o) = Reads(heap, o)
                 /\ heap'.dirty[o] = heap.dirty[o]
      ]_vars

\* ---------------------------------------------------------------------------
\* Field writes by another task while save() is suspended (document.py
\* 307-374).  save() runs up to its await of the store in one step; until the
\* store answers, other tasks of the event loop run __setitem__ and
\* __delitem__ on the same instance.  The history fields record the names
\* written or deleted during the await: phase is "await" while the save is
\* suspended and "after" once it has returned normally.
\* ---------------------------------------------------------------------------

RaceSetItem(o, k, v) ==
    /\ LET d == objs[o]
           r == setitem(d, k, v)
           n == FieldName(d, k)
       IN  /\ objs' = [objs EXCEPT ![o] =
                         IF d.pend # "none" /\ r.out = "ok"
                         THEN [r.d EXCEPT !.touched = @ \cup {n}] ELSE r.d]
           /\ op' = Done(o, "setitem", k, v, r.out)
    /\ reqs' = IF Idle THEN <<>> ELSE reqs
    /\ copied' = <<>>
    /\ UNCHANGED defined

\* The history records a deletion during the await when the field held a
\* value.
RaceDelItem(o, k) ==
    /\ LET d == objs[o]
           r == delitem(d, k)
           n == FieldName(d, k)
       IN  /\ objs' = [objs EXCEPT ![o] =
                         IF d.pend # "none" /\ r.out = "ok" /\ HoldsValue(d, n)
                         THEN [r.d EXCEPT !.touched = @ \cup {n}] ELSE r.d]
           /\ op' = Done(o, "delitem", k, None, r.out)
    /\ reqs' = IF Idle THEN <<>> ELSE reqs
    /\ copied' = <<>>
    /\ UNCHANGED defined

\* save() up to the await; a save() that ends before the store is reached
\* ends the history.
RaceSaveBegin(o) ==
    /\ Idle
    /\ LET r == save(objs[o])
       IN  /\ objs' = [objs EXCEPT ![o] =
                         Ghost(r.d, IF r.out = "pending" THEN "await" ELSE "other", {})]
           /\ op' = Done(o, "save", "", None, r.out)
           /\ reqs' = r.reqs
    /\ copied' = <<>>
    /\ UNCHANGED defined

RaceSaveComplete(o, ok, gen) ==
    /\ objs[o].pend \in {"insert", "update"}
    /\ (gen # Unset) <=> (ok /\ objs[o].pend = "insert" /\ reqs[1].doc["id"] = Unset)
    /\ LET d == objs[o]
           e == IF ~ok THEN run_raised(d)
                ELSE IF d.pend = "insert" THEN insert_result(d, gen)
                ELSE [d EXCEPT !.pend = "none"]
       IN  objs' = [objs EXCEPT ![o] =
                      IF ok THEN Ghost(e, "after", d.touched) ELSE Ghost(e, "other", {})]
    /\ op' = Done(o, "save", "", gen, IF ok THEN "ok" ELSE "ReqlError")
    /\ copied' = <<>>
    /\ UNCHANGED <<defined, reqs>>

InitRace ==
    /\ defined = {"Doc"}
    /\ objs = [o \in {"d"} |-> Ghost(NewDoc("Doc"), "other", {})]
    /\ copied = <<>>
    /\ op = Done("d", "new", "", None, "ok")
    /\ reqs = <<>>
    /\ feed = NoFeed
    /\ iter = NewIter
    /\ lz = NoValue
    /\ lop = LazyDone("", None, "ok", None, 0)
    /\ fc = NewContainer
    /\ cop = ContDone("new", "", None, "ok", None)
    /\ cache = NoCache
    /\ vop = NoValidation
    /\ reg = NoRegistry
    /\ index = NoIndex
    /\ pool = NewPool
    /\ pop = NoPoolOp
    /\ heap = NewHeap
    /\ hop = NoHeapOp

RaceOps ==
    \/ \E k \in WriteKeys : \E v \in WriteVals(k) : RaceSetItem("d", k, v)
    \/ \E k \in DelKeys : RaceDelItem("d", k)
    \/ RaceSaveBegin("d")
    \/ \E ok \in BOOLEAN : \E gen \in GenKeys \cup {Unset} : RaceSaveComplete("d", ok, gen)

NextRace == RaceOps /\ UNCHANGED <<feedvars, lazyvars, contvars, typevars, classvars, connvars, heapvars>>

SpecRace == InitRace /\ [][NextRace]_vars

\* The db key under which save() sends field n.
SentAs(d, n) == IF has_field_attr(d.cls, n) THEN dbname(d.cls, n) ELSE n

MaxLoads == 2

\* The values the tasks hand to set(); None is left to the sequential
\* specification, where set(None) ends in the AttributeError of upper().
LoadSetArgs == {MixBase + 1} \cup LowerStrs

\* load() after the await: the fetch of dbval returns or raises.
LazyValue_load_result(l, dbval) ==
    LET f == LazyValue_fetch(dbval)
    IN  IF f.out # "ok" THEN LazyRet(f.out, l, None, 1)
        ELSE LazyRet("ok", [l EXCEPT !.val_cached = f.val, !.loaded = TRUE], f.val, 1)

RemoveAt(sq, i) == [ j \in 1..(Len(sq) - 1) |-> IF j < i THEN sq[j] ELSE sq[j + 1] ]

LoadBegin ==
    /\ Len(reqs) < MaxLoads
    /\ reqs' = Append(reqs, Request("load", lz.val_db, NoDoc))
    /\ lop' = LazyDone("load", lz.val_db, "pending", None, 1)
    /\ UNCHANGED lz

LoadComplete(i) ==
    /\ i \in 1..Len(reqs)
    /\ LET r == LazyValue_load_result(lz, reqs[i].key)
       IN  /\ lz' = [r.l EXCEPT !.completed = @ \/ r.out = "ok"]
           /\ lop' = LazyDone("load", reqs[i].key, r.out, r.ret, 0)
    /\ reqs' = RemoveAt(reqs, i)

LoadSet(v) == LazySet(v) /\ UNCHANGED reqs

LoadGet == LazyGet /\ UNCHANGED reqs

InitLoad ==
    /\ lz \in { LazyValue_init(vc, vd).l : vc \in LowerStrs \cup {None}, vd \in DbArgs }
    /\ lop = LazyDone("new", None, "ok", None, 0)
    /\ fc = NewContainer
    /\ cop = ContDone("new", "", None, "ok", None)
    /\ cache = NoCache
    /\ vop = NoValidation
    /\ reg = NoRegistry
    /\ index = NoIndex
    /\ pool = NewPool
    /\ pop = NoPoolOp
    /\ heap = NewHeap
    /\ hop = NoHeapOp
    /\ feed = NoFeed
    /\ iter = NewIter
    /\ defined = {}
    /\ objs = <<>>
    /\ copied = <<>>
    /\ op = Done("", "new", "", None, "ok")
    /\ reqs = <<>>

LoadOps ==
    \/ LoadBegin
    \/ \E i \in 1..MaxLoads : LoadComplete(i)
    \/ \E v \in LoadSetArgs : LoadSet(v)
    \/ LoadGet

NextLoad ==
    LoadOps /\ UNCHANGED <<defined, objs, copied, op, feedvars, contvars, typevars, classvars, connvars, heapvars>>

SpecLoad == InitLoad /\ [][NextLoad]_vars

\* C34: for every interleaving of load() and set() on one LazyValue, once no
\* load() is in flight the db representation of a loaded value is the
\* conversion of the cached value, and a load() that completes after a
\* set(v) succeeded leaves the cached value v.
C34_LoadNeverOverwritesLaterSet ==
    (reqs = <<>> /\ lz.loaded) => lz.val_db = upper(lz.val_cached)

\* C38: set(v) with a v the value type rejects raises ValidationError and
\* changes neither loaded nor the cached value nor the db representation,
\* whether the value is loaded or not.
C38_RejectedSetChangesNothing ==
    [][ (lop'.name = "set" /\ StringValidate(lop'.arg) # "ok") =>
            /\ lop'.out = "ValidationError"
            /\ lz'.loaded = lz.loaded
            /\ lz'.val_cached = lz.val_cached
            /\ lz'.val_db = lz.val_db
            /\ LazyValue_get(lz').out = LazyValue_get(lz).out
            /\ LazyValue_get(lz').ret = LazyValue_get(lz).ret
      ]_vars

\* set("Hello") has been rejected on a loaded value, which still reads
\* "hello" / "HELLO".
C38_Witness ==
    /\ lop.name = "set" /\ lop.arg = MixBase + 1 /\ lop.out = "ValidationError"
    /\ lz.loaded /\ lz.val_cached = 1 /\ lz.val_db = UpBase + 1

\* ---------------------------------------------------------------------------
\* The views and whole-container operations of FieldContainer
\* (field_container.py 217-244, 320-412, 438-469) on the container class of
\* the tests: validate, to_doc, dbitems, membership and item access, applied
\* to the states that the constructor, from_doc, assignment and deletion
\* produce.
\* ---------------------------------------------------------------------------

\* FieldContainer.validate: validate_field for every name of _updated_fields
\* that is an attribute of the class.
FC_validate(c) ==
    IF \E k \in c.dirty : FC_attr(k) # "" /\ FC_validate_field(c, k).out # "ok"
    THEN ContRet("ValidationError", c, None)
    ELSE ContRet("ok", c, None)

\* FieldContainer.__contains__
FC_contains(c, k) == FC_attr(k) # "" \/ (k \in DOMAIN c.und /\ c.und[k] # Unset)

\* FieldContainer.get_key_for_dbkey
FC_get_key_for_dbkey(dbkey) ==
    IF FC_dbname_to_field_name(dbkey) # "" THEN FC_dbname_to_field_name(dbkey) ELSE dbkey

\* FieldContainer.dbitems(which): ItemsView zips keys(which) with
\* get_dbvalue of each key; the first get_dbvalue that raises ends the
\* iteration with its exception.
FC_dbitems(c, which) ==
    LET ks == FC_keys(c, which)
    IN  IF \E i \in 1..Len(ks) : FC_get_dbvalue(c, ks[i], None).out # "ok"
        THEN ContRet(FC_get_dbvalue(c, ks[CHOOSE i \in 1..Len(ks) :
                        /\ FC_get_dbvalue(c, ks[i], None).out # "ok"
                        /\ \A j \in 1..(i - 1) : FC_get_dbvalue(c, ks[j], None).out = "ok"],
                        None).out, c, <<>>)
        ELSE ContRet("ok", c, [ i \in 1..Len(ks) |-> <<ks[i], FC_get_dbvalue(c, ks[i], None).ret>> ])

ViewKeys == {"f1", "f1a", "f3", "field1", "u"}

\* Documents with the db-name field1, the key f1, which is the name of a
\* field and no db-name, the required f3 and an undeclared key.
ViewDocs ==
    { [field1 |-> a, f1 |-> b, f2 |-> Unset, f3 |-> c, f_swapcase |-> Unset, u |-> d] :
        a \in {Unset, 1}, b \in {Unset, 2}, c \in {Unset, 1}, d \in {Unset, 1} }

\* A query: the instance is as it was, the outcome is recorded.
ViewQuery(nm, key, val, out, ret) == ContOp(nm, key, val, ContRet(out, fc, ret))

InitView ==
    /\ fc = NewContainer
    /\ cop = ContDone("new", "", None, "ok", None)
    /\ cache = NoCache
    /\ vop = NoValidation
    /\ reg = NoRegistry
    /\ index = NoIndex
    /\ pool = NewPool
    /\ pop = NoPoolOp
    /\ heap = NewHeap
    /\ hop = NoHeapOp
    /\ lz = NoValue
    /\ lop = LazyDone("", None, "ok", None, 0)
    /\ feed = NoFeed
    /\ iter = NewIter
    /\ defined = {}
    /\ objs = <<>>
    /\ copied = <<>>
    /\ op = Done("", "new", "", None, "ok")
    /\ reqs = <<>>

ViewOps ==
    \/ ContOp("new", "", None, ContRet("ok", NewContainer, None))
    \/ \E doc \in ViewDocs :
          LET r == FC_from_doc(doc)
          IN  ContOp("from_doc", "", None, IF r.out = "ok" THEN r ELSE ContRet(r.out, fc, None))
    \/ \E k \in {"f1", "f1a", "f3", "u"} : \E v \in 1..MaxVal :
          ContOp("setitem", k, v, FC_setitem(fc, k, v))
    \/ \E k \in {"f3", "u"} : ContOp("delitem", k, None, FC_delitem(fc, k))
    \/ ViewQuery("validate", "", None, FC_validate(fc).out, None)
    \/ ViewQuery("to_doc", "", None, FC_to_doc(fc).out, None)
    \/ \E w \in Whichs : ViewQuery("dbitems", "", w, FC_dbitems(fc, w).out, None)
    \/ \E k \in ViewKeys : ViewQuery("contains", k, None, "ok", IF FC_contains(fc, k) THEN 1 ELSE 0)
    \/ \E k \in ViewKeys : ViewQuery("getitem", k, None, FC_getitem(fc, k).out, FC_getitem(fc, k).ret)

NextView == ViewOps /\ UNCHANGED <<docvars, feedvars, lazyvars, typevars, classvars, connvars, heapvars>>

SpecView == InitView /\ [][NextView]_vars

\* C35: validate() raises ValidationError whenever a required declared field
\* of the container reads None, whether or not the field is in the dirty
\* set.
C35_ValidateChecksRequiredFields ==
    [][ (cop'.name = "validate" /\ \E n \in DOMAIN FCFields :
                                      FCFields[n].required /\ Field_get(fc, n) = None) =>
            cop'.out = "ValidationError" ]_vars

\* The pairs a document holds.
DocItems(doc) == { <<k, doc[k]>> : k \in { x \in DOMAIN doc : doc[x] # Unset } }

\* C36: for every container state c, to_doc() and from_doc of its result
\* succeed, from_doc(c.to_doc()) has the key set of c and the value of c under
\* every key, the key set of c.to_doc() is c.dbkeys(), and its value under a
\* db key k is c.get_dbvalue(c.get_key_for_dbkey(k)).
C36_ToDocFromDocRoundTrip ==
    [][ cop'.name = "to_doc" =>
          LET t == FC_to_doc(fc)
              r == FC_from_doc(t.ret)
          IN  /\ cop'.out = "ok"
              /\ r.out = "ok"
              /\ Range(FC_keys(r.c, ALL)) = Range(FC_keys(fc, ALL))
              /\ \A k \in Range(FC_keys(fc, ALL)) : FC_getitem(r.c, k).ret = FC_getitem(fc, k).ret
              /\ { k \in DOMAIN t.ret : t.ret[k] # Unset } = FC_dbkeys(fc)
              /\ \A k \in FC_dbkeys(fc) :
                    t.ret[k] = FC_get_dbvalue(fc, FC_get_key_for_dbkey(k), None).ret
      ]_vars

\* C37: dbitems(which) yields one pair per field selected by which, keyed by
\* the field's db-name; the pairs of dbitems() are the items of to_doc().
C37_DbItemsKeyedByDbName ==
    [][ cop'.name = "dbitems" =>
          LET its == FC_dbitems(fc, cop'.val)
              ks == FC_keys(fc, cop'.val)
          IN  (cop'.out = "ok" /\ FC_to_doc(fc).out = "ok") =>
                /\ Len(its.ret) = Len(ks)
                /\ \A i \in 1..Len(ks) :
                      its.ret[i][1] = IF FC_attr(ks[i]) # "" /\ i <= Cardinality(DOMAIN FCFields)
                                      THEN FCFields[ks[i]].dbname ELSE ks[i]
                /\ cop'.val = ALL => Range(its.ret) = DocItems(FC_to_doc(fc).ret)
      ]_vars

\* C39: k in container is true exactly when k is one of keys(ALL), and
\* exactly then container[k] succeeds instead of raising KeyError; this holds
\* for the name of an alias attribute as for any other name.
C39_MembershipMatchesKeys ==
    [][ /\ cop'.name = "contains" =>
              /\ cop'.ret = 1 <=> cop'.key \in Range(FC_keys(fc, ALL))
              /\ cop'.ret = 1 <=> FC_getitem(fc, cop'.key).out = "ok"
        /\ cop'.name = "getitem" =>
              /\ cop'.out \in {"ok", "KeyError"}
              /\ cop'.out = "ok" <=> cop'.key \in Range(FC_keys(fc, ALL))
      ]_vars

\* ---------------------------------------------------------------------------
\* Class statements of FieldContainer subclasses (field_container.py 67-114,
\* metaclass constructor).  A class body is its base and the Field attributes
\* it assigns, as <<name, db-name>> in the order of dir(cls); a dict is the set
\* of its <<key, value>> pairs.
\* ---------------------------------------------------------------------------

\* The bodies a class statement of each name may have.  B overrides f1 of A
\* with another db-name, C adds a field under the db-name of an inherited
\* one, S is unrelated, K names a field like a method of FieldContainer.
Bodies ==
    [ A |-> { [base |-> "", own |-> << <<"f1", "field1">> >>],
              [base |-> "", own |-> << <<"f1", "f1">> >>] },
      B |-> { [base |-> "A", own |-> << <<"f1", "other">>, <<"g", "g">> >>],
              [base |-> "A", own |-> << <<"g", "g">> >>] },
      C |-> { [base |-> "A", own |-> << <<"h", "field1">> >>],
              [base |-> "A", own |-> << <<"h", "h">> >>] },
      S |-> { [base |-> "", own |-> << <<"s", "s">> >>] },
      K |-> { [base |-> "", own |-> << <<"keys", "keys">> >>] } ]

\* hasattr(base, name) with a non-Field attribute, for the names used.
ContainerAttrs == {"keys"}

\* dict[k] = v
Put(m, k, v) == { p \in m : p[1] # k } \cup { <<k, v>> }

\* The second loop of _map_declared_fields over the fields defined in the
\* class itself: ix holds the two dicts built so far.
RECURSIVE AddOwnFields(_, _)
AddOwnFields(ix, own) ==
    IF own = <<>> THEN ix
    ELSE AddOwnFields([ix EXCEPT !.fields = Put(@, Head(own)[1], Head(own)[2]),
                                  !.dbmap = Put(@, Head(own)[2], Head(own)[1])],
                      Tail(own))

\* FieldContainer._map_declared_fields: both dicts start as copies of the
\* base's, then every Field defined in the class itself is entered under its
\* name and under its db-name; a Field named like a non-Field attribute of a
\* base raises IllegalSpecError.
FC_map_declared_fields(ix, body) ==
    LET inh == IF body.base = "" THEN NoIndex["A"] ELSE ix[body.base]
    IN  IF \E i \in 1..Len(body.own) : body.own[i][1] \in ContainerAttrs
        THEN [out |-> "IllegalSpecError", cls |-> NoIndex["A"]]
        ELSE [out |-> "ok",
              cls |-> AddOwnFields([exists |-> TRUE, fields |-> inh.fields, dbmap |-> inh.dbmap],
                                   body.own)]

\* The class statement of c with the given body; when it raises there is no
\* new class and the name keeps what it was bound to.
IndexDefine(c, body) ==
    /\ body.base # "" => index[body.base].exists
    /\ LET m == FC_map_declared_fields(index, body)
       IN  /\ index' = IF m.out = "ok" THEN [index EXCEPT ![c] = m.cls] ELSE index
           /\ op' = Done("", "class", c, None, m.out)
    /\ UNCHANGED <<defined, objs, copied, reqs, reg>>

InitIndex ==
    /\ reg = NoRegistry
    /\ index = NoIndex
    /\ defined = {}
    /\ objs = <<>>
    /\ copied = <<>>
    /\ op = Done("", "new", "", None, "ok")
    /\ reqs = <<>>
    /\ feed = NoFeed
    /\ iter = NewIter
    /\ lz = NoValue
    /\ lop = LazyDone("", None, "ok", None, 0)
    /\ fc = NewContainer
    /\ cop = ContDone("new", "", None, "ok", None)
    /\ cache = NoCache
    /\ vop = NoValidation
    /\ pool = NewPool
    /\ pop = NoPoolOp
    /\ heap = NewHeap
    /\ hop = NoHeapOp

IndexOps == \E c \in IndexClasses : \E body \in Bodies[c] : IndexDefine(c, body)

NextIndex ==
    IndexOps /\ UNCHANGED <<feedvars, lazyvars, contvars, typevars, connvars, heapvars>>

SpecIndex == InitIndex /\ [][NextIndex]_vars

\* C40: after any sequence of class statements, the db-name index of every
\* class that exists has exactly one entry per declared field of the class,
\* own or inherited, from the field's db-name to its name, and no two
\* declared fields of the class have the same db-name.
C40_DbNameIndexMatchesFields ==
    \A c \in IndexClasses :
        index[c].exists =>
            /\ index[c].dbmap = { <<p[2], p[1]>> : p \in index[c].fields }
            /\ \A p1, p2 \in index[c].fields : p1[2] = p2[2] => p1 = p2

====
